---- MODULE Spec2Model ----
(***************************************************************************)
(* DaingGrader mobile client.                                              *)
(*                                                                         *)
(* Three state machines are modelled:                                      *)
(*   SpecRetry  - services/api: withRetry as called by analyzeFish         *)
(*   SpecFetch  - services/api: fetchHistory, both revisions               *)
(*   SpecScreen - components/HistoryScreen and AutoDatasetScreen: the      *)
(*                collection view (load, view, select, delete)             *)
(***************************************************************************)
EXTENDS Integers, Sequences, FiniteSets, Bags, TLC

VARIABLES
    \* ---- withRetry / analyzeFish ----
    rPc,          \* "idle" | "attempt" | "delay" | "done"
    rI,           \* loop variable i of withRetry
    rLastError,   \* lastError
    rResult,      \* settled promise of withRetry: [kind, value]
    rLog,         \* outcomes of the attempts made so far, in order
    rDelays,      \* number of setTimeout delays awaited
    aResult,      \* settled promise of analyzeFish: [kind, value, reader]
    \* ---- fetchHistory ----
    apiRev,       \* which revision of services/api is built: "silent" | "throwing"
    fIn,          \* outcome of axios.get handed to fetchHistory
    fOut,         \* what fetchHistory did with it: [kind, value]
    \* ---- collection screen ----
    screen,       \* "none" | "history" | "autoDataset"
    mounted,      \* the mount effect has run
    entries,      \* useState entries (sequence of entry ids)
    loading,      \* useState loading
    selectedEntry,\* useState selectedEntry (entry id or Null)
    isDeleting,   \* useState isDeleting
    selectedIds,  \* useState selectedIds
    isSelectionMode, \* useState isSelectionMode
    alerts,       \* titles of the Alert.alert dialogs raised and not yet dismissed
    fetches,      \* bag of the collection fetches in flight: [phase, data]
    delOp,        \* the delete handler awaiting its calls: [kind, ids, ok]
    orphans,      \* ids whose delete call is still in flight after its handler ended
    lastDelete,   \* the delete call that settled in the last step: [kind, outcome]
    server,       \* the backend's collection (sequence of entry ids)
    gesture,      \* the last selection gesture and the selection before it
    \* ---- server URLs ----
    urlIn,        \* the base URL typed into the settings (sequence of characters)
    urlNorm,      \* results of normalizeUrl applied to it once, twice, ...
    urlEndpoints, \* getServerUrls of it and of it followed by a slash: [rev, bare, slashed]
    \* ---- uploadDataset ----
    upArgs,       \* the arguments of the call: [fishType, condition]
    upPosts,      \* number of axios.post calls made
    upIn,         \* what axios.post settled with
    upOut,        \* what uploadDataset did with it: [kind, success, message, error]
    \* ---- fetchAnalytics / AnalyticsScreen ----
    anMounted,    \* the mount effect of AnalyticsScreen has run
    analytics,    \* useState analytics
    anLoading,    \* useState loading
    anRefreshing, \* useState refreshing
    anFetches,    \* number of fetchAnalytics calls in flight
    anIn,         \* what axios.get settled with for the last call
    anOut,        \* what fetchAnalytics did with it: [kind, value]
    \* ---- date sections of the grid ----
    tzOffset,     \* the device's offset from UTC in minutes (UTC-5 is -300)
    secEntries,   \* the entries state the sections are computed from: [id, timestamp]
    sections,     \* useMemo sections as rendered: sequence of [isoDate, rows, cells]
    \* ---- full-screen viewer ----
    page,         \* scroll page of the viewer's FlatList (0-based), or NoFlatList
    nav,           \* the navigation made in the last step: [dir, from, n]
    fetchCap,      \* how many collection fetches the screen may have in flight together
    currentScreen, \* useState currentScreen of Index
    showSettings,  \* useState showSettings
    autoSaveDataset, \* useState autoSaveDataset
    viewingFromScan, \* useState viewingFromScan
    latestHistoryEntry, \* useState latestHistoryEntry (entry id or Null)
    thumbFetches,  \* loadLatestHistory calls awaiting fetchHistory
    scanRev,       \* which revision of ScanScreen is built: "overlay" | "spinner"
    capturedImage, \* useState capturedImage (image id or Null)
    analysisResult, \* useState analysisResult / resultImage (id of the analysed image or Null)
    scanLoading,   \* useState loading of Index
    shots,         \* takePicture / launchImageLibraryAsync calls awaited
    analyses,      \* bag of the analyzeFish calls in flight: [image, autoSave]
    lastFetch, \* the fetch that settled in the last step: [kind, before]
    processed \* how often the backend has processed the image of the analyzeFish call

retryVars  == <<rPc, rI, rLastError, rResult, rLog, rDelays, aResult>>
fetchVars  == <<fIn, fOut>>
screenVars == <<screen, mounted, entries, loading, selectedEntry, isDeleting,
                selectedIds, isSelectionMode, alerts, fetches, delOp, orphans,
                lastDelete, server>>
urlVars == <<urlIn, urlNorm, urlEndpoints>>
uploadVars == <<upArgs, upPosts, upIn, upOut>>
analyticsVars == <<anMounted, analytics, anLoading, anRefreshing, anFetches, anIn, anOut>>
sectionVars == <<tzOffset, secEntries, sections>>
viewerVars == <<page, nav>>
loadVars == <<fetchCap>>
appVars == <<currentScreen, showSettings, autoSaveDataset, viewingFromScan, latestHistoryEntry, thumbFetches, scanRev, capturedImage, analysisResult, scanLoading, shots, analyses>>
refreshVars == <<lastFetch>>
backendVars == <<processed>>
callVars == <<uploadVars, analyticsVars, sectionVars, viewerVars, loadVars, appVars, refreshVars, backendVars>>
vars == <<retryVars, apiRev, fetchVars, screenVars, gesture, urlVars, callVars>>

Null == 0

\* ------------------------------------------------------------------------
\* Bounds
\* ------------------------------------------------------------------------
MaxIds == 2        \* entry ids 1..MaxIds exist on the backend
MaxFetches == 1    \* collection fetches that may be in flight together
MaxAlerts == 1     \* alert dialogs that may be open together
MaxListLen == 3    \* longest entries array handed to fetchHistory (SpecFetch)
MaxItems == 3      \* distinct entries such an array may hold (SpecFetch)
MaxSelIds == 4     \* entries of the collection the selection is made on (SpecSelect)
MaxUrlLen == 4     \* longest base URL typed (SpecUrl)
MaxViewIds == 4    \* entries of the collection the viewer pages through (SpecViewer)
MaxSecEntries == 5 \* longest entries list the sections are computed from (SpecSections)
MaxOverlap == 2    \* collection fetches in flight together when they overlap (SpecOverlap)
MaxImages == 2     \* images the camera or the gallery can deliver (SpecApp)
MaxPending == 2    \* calls of one kind the app may have in flight together (SpecApp)
MaxScans == 3      \* largest total_scans of an analytics summary (SpecAnalytics)

Ids == 1..MaxIds

\* ------------------------------------------------------------------------
\* Sequence helpers (Array.prototype.filter / includes / String.includes)
\* ------------------------------------------------------------------------
Range(s) == {s[i] : i \in 1..Len(s)}

RECURSIVE FilterOut(_, _)
\* prev.filter((item) => !drop.has(item.id))
FilterOut(s, drop) ==
    IF s = <<>> THEN <<>>
    ELSE IF Head(s) \in drop THEN FilterOut(Tail(s), drop)
         ELSE <<Head(s)>> \o FilterOut(Tail(s), drop)

\* String.prototype.includes on a message held as a sequence of words
Includes(msg, needle) ==
    \E i \in 0..(Len(msg) - Len(needle)) :
        \A j \in 1..Len(needle) : msg[i + j] = needle[j]

\* ------------------------------------------------------------------------
\* Errors axios can reject with
\* ------------------------------------------------------------------------
NoMessage == <<"<undefined>">>

ErrNetwork    == [code |-> "ERR_NETWORK",  message |-> <<"Network", "Error">>]
ErrAborted    == [code |-> "ECONNABORTED", message |-> <<"timeout", "of", "30000ms", "exceeded">>]
ErrMsgNetwork == [code |-> "",             message |-> <<"Network", "Error">>]
ErrMsgTimeout == [code |-> "ETIMEDOUT",    message |-> <<"connect", "timeout">>]
Err4xx        == [code |-> "ERR_BAD_REQUEST",  message |-> <<"Request", "failed", "with", "status", "code", "400">>]
Err5xx        == [code |-> "ERR_BAD_RESPONSE", message |-> <<"Request", "failed", "with", "status", "code", "500">>]
ErrBare       == [code |-> "",             message |-> NoMessage]
ErrEmpty      == [code |-> "",             message |-> <<>>]
NoError       == [code |-> "<null>",       message |-> NoMessage]

Errors == {ErrNetwork, ErrAborted, ErrMsgNetwork, ErrMsgTimeout, Err4xx, Err5xx,
           ErrBare, ErrEmpty}

\* error.message?.includes(needle)
MessageIncludes(error, needle) ==
    error.message # NoMessage /\ Includes(error.message, needle)

isTransientAnyError(error) == error.code # "<null>"
\* the retry condition of withRetry
isTransient(error) ==
    \/ error.code = "ERR_NETWORK"
    \/ error.code = "ECONNABORTED"
    \/ MessageIncludes(error, <<"Network", "Error">>)
    \/ MessageIncludes(error, <<"timeout">>)

\* ------------------------------------------------------------------------
\* withRetry as called by analyzeFish
\* ------------------------------------------------------------------------
Retries == 3       \* analyzeFish: withRetry(fn, 3, 1000)
Delay == 1000

Responses == {"blob1", "blob2"}
Outcomes == [ok : {TRUE}, value : Responses] \cup [ok : {FALSE}, value : Errors]

Pending == [kind |-> "pending", value |-> Null]

NotAnalyzed == [kind |-> "pending", value |-> Null, reader |-> "none"]

RetryInit ==
    /\ rPc = "idle"
    /\ rI = 0
    /\ rLastError = NoError
    /\ rResult = Pending
    /\ rLog = <<>>
    /\ rDelays = 0
    /\ aResult = NotAnalyzed

\* the loop test i < retries; falling out of the loop throws lastError
LoopTest(i, lastError) ==
    IF i < Retries
    THEN /\ rPc' = "attempt"
         /\ rResult' = rResult
    ELSE /\ rPc' = "done"
         /\ rResult' = [kind |-> "throw", value |-> lastError]

\* analyzeFish calls withRetry: lastError = null, i = 0
withRetry ==
    /\ rPc = "idle"
    /\ rI' = 0
    /\ rLastError' = NoError
    /\ LoopTest(0, NoError)
    /\ UNCHANGED <<rLog, rDelays, aResult>>

ShouldRetryOneFewer(error, i) == isTransient(error) /\ i < Retries - 2
ShouldRetryUnbounded(error, i) == isTransient(error)
\* the catch branch decides to wait and go round again
ShouldRetry(error, i) == isTransient(error) /\ i < Retries - 1

\* one pass of the loop body: await fn() settles with outcome o
Attempt(o) ==
    /\ rPc = "attempt"
    /\ rLog' = Append(rLog, o)
    /\ IF o.ok
       THEN /\ rResult' = [kind |-> "return", value |-> o.value]
            /\ rPc' = "done"
            /\ UNCHANGED rLastError
       ELSE /\ rLastError' = o.value
            /\ IF ShouldRetry(o.value, rI)
               THEN /\ rPc' = "delay"
                    /\ UNCHANGED rResult
               ELSE /\ rPc' = "done"
                    /\ rResult' = [kind |-> "throw", value |-> o.value]
    /\ UNCHANGED <<rI, rDelays, aResult>>

\* the setTimeout(resolve, delay) fires; continue -> i++ -> loop test
DelayElapsed ==
    /\ rPc = "delay"
    /\ rDelays' = rDelays + 1
    /\ rI' = rI + 1
    /\ LoopTest(rI + 1, rLastError)
    /\ UNCHANGED <<rLastError, rLog, aResult>>

\* ---- the backend behind POST /analyze ----
NotProcessed == processed = 0

\* has the backend processed the image when the attempt settles with o: yes
\* for a response, no for a 4xx rejection; a request that timed out on the
\* client or lost its connection may or may not have been processed
ProcessedBy(o) ==
    IF o.ok THEN {TRUE}
    ELSE IF o.value = Err4xx THEN {FALSE}
    ELSE BOOLEAN

\* ---- analyzeFish ----
\* the services/api.ts revision awaits axios.post itself, without withRetry
postOnce(o) ==
    /\ rPc = "idle"
    /\ rLog' = <<o>>
    /\ rPc' = "done"
    /\ rResult' = [kind |-> (IF o.ok THEN "return" ELSE "throw"), value |-> o.value]
    /\ UNCHANGED <<rI, rLastError, rDelays, aResult>>

TimedOutMessage == <<"Request timed out. Please check your server IP address and try again.">>
CannotConnectMessage == <<"Cannot connect to server. Please verify the IP address is correct.">>
FailedToAnalyze == <<"Failed to analyze image">>

\* error.message || "Failed to analyze image"
MessageOr(error, fallback) ==
    IF error.message = NoMessage \/ error.message = <<>> THEN fallback
    ELSE error.message

analyzeErrorRaw(error) == MessageOr(error, FailedToAnalyze)
\* the message of the Error the catch block of analyzeFish throws
analyzeError(error) ==
    IF error.code = "ECONNABORTED" \/ MessageIncludes(error, <<"timeout">>)
    THEN TimedOutMessage
    ELSE IF error.code = "ERR_NETWORK" \/ MessageIncludes(error, <<"Network", "Error">>)
    THEN CannotConnectMessage
    ELSE MessageOr(error, FailedToAnalyze)

\* the awaited request has thrown: catch (error) { throw new Error(...) }
analyzeFishCatch ==
    /\ rPc = "done" /\ rResult.kind = "throw"
    /\ aResult.kind = "pending"
    /\ aResult' = [kind |-> "throw", value |-> analyzeError(rResult.value),
                   reader |-> "none"]
    /\ UNCHANGED <<rPc, rI, rLastError, rResult, rLog, rDelays>>

\* what the FileReader does with response.data
ReaderEvents == {"load_string", "load_other", "error"}

\* the promise analyzeFish returns settles from the FileReader callbacks
analyzeFishRead(event) ==
    /\ rPc = "done" /\ rResult.kind = "return"
    /\ aResult.kind = "pending"
    /\ aResult' =
          IF event = "load_string"
          THEN [kind |-> "return", value |-> <<"data:", rResult.value>>, reader |-> event]
          ELSE IF event = "load_other"
          THEN [kind |-> "throw", value |-> <<"Failed to convert image">>, reader |-> event]
          ELSE [kind |-> "throw", value |-> <<"Failed to read image">>, reader |-> event]
    /\ UNCHANGED <<rPc, rI, rLastError, rResult, rLog, rDelays>>

\* ------------------------------------------------------------------------
\* fetchHistory
\* ------------------------------------------------------------------------
\* response.data shapes: the entries field is an array, or is something else,
\* or is missing, or there is no data at all
Malformed == {"data_undefined", "entries_missing", "entries_null",
              "entries_string", "entries_object", "entries_number"}

RECURSIVE SeqsUpTo(_, _)
SeqsUpTo(S, n) ==
    IF n = 0 THEN {<<>>}
    ELSE LET shorter == SeqsUpTo(S, n - 1)
         IN shorter \cup {Append(s, x) : s \in shorter, x \in S}

GetArrays == [kind : {"array"}, value : SeqsUpTo(1..MaxItems, MaxListLen)]
GetMalformed == [kind : {"malformed"}, value : Malformed]
GetErrors == [kind : {"error"}, value : Errors]

\* Array.isArray(response.data?.entries)
IsArrayEntries(o) == o.kind = "array"

\* services/api revision with withRetry (unnamed/part_000)
fetchHistorySilent(o) ==
    IF o.kind = "error" THEN [kind |-> "return", value |-> <<>>]
    ELSE IF IsArrayEntries(o) THEN [kind |-> "return", value |-> o.value]
    ELSE [kind |-> "return", value |-> <<>>]

\* services/api.ts revision
fetchHistoryThrowing(o) ==
    IF o.kind = "error"
    THEN IF o.value.code = "ECONNABORTED" \/ MessageIncludes(o.value, <<"timeout">>)
         THEN [kind |-> "throw", value |-> "Request timed out"]
         ELSE IF o.value.code = "ERR_NETWORK" \/ MessageIncludes(o.value, <<"Network", "Error">>)
         THEN [kind |-> "throw", value |-> "Cannot connect to server"]
         ELSE [kind |-> "throw", value |-> "Unable to load history"]
    ELSE IF IsArrayEntries(o) THEN [kind |-> "return", value |-> o.value]
    ELSE [kind |-> "return", value |-> <<>>]

fetchHistory(rev, o) ==
    IF rev = "silent" THEN fetchHistorySilent(o) ELSE fetchHistoryThrowing(o)

NoCall == [kind |-> "none", value |-> Null]

FetchInit ==
    /\ fIn = NoCall
    /\ fOut = Pending

\* a caller awaits fetchHistory(url) and axios.get settles with o
CallFetchHistory(o) ==
    /\ fIn.kind = "none"
    /\ fIn' = o
    /\ fOut' = fetchHistory(apiRev, o)

\* ------------------------------------------------------------------------
\* Server URLs (services/api normalizeUrl, constants/config getServerUrls)
\* ------------------------------------------------------------------------
\* a URL is a sequence of characters: a letter, the slash, white space
Chars == {"h", "/", " "}
Urls == SeqsUpTo(Chars, MaxUrlLen)

RECURSIVE trimStart(_)
trimStart(u) ==
    IF u # <<>> /\ Head(u) = " " THEN trimStart(Tail(u)) ELSE u

RECURSIVE trimEnd(_)
trimEnd(u) ==
    IF u # <<>> /\ u[Len(u)] = " " THEN trimEnd(SubSeq(u, 1, Len(u) - 1)) ELSE u

\* String.prototype.trim
trim(u) == trimEnd(trimStart(u))

RECURSIVE stripTrailingSlashes(_)
\* .replace(/\/+$/, "")
stripTrailingSlashes(u) ==
    IF u # <<>> /\ u[Len(u)] = "/"
    THEN stripTrailingSlashes(SubSeq(u, 1, Len(u) - 1))
    ELSE u

\* normalizeUrl of services/api, normalizeBaseUrl of constants/config
normalizeUrl(u) == stripTrailingSlashes(trim(u))

DEFAULT_SERVER_BASE_URL == <<"http://192.168.1.109:8000">>

\* the revisions of constants/config: config.ts concatenates the base URL as it
\* is, the other two normalize it first
ConfigRevs == {"config.ts", "part_005", "part_006"}

EndpointPaths(rev) ==
    IF rev = "part_005"
    THEN [analyze     |-> <<"/", "analyze">>,
          history     |-> <<"/", "history">>,
          analytics   |-> <<"/", "analytics", "/", "summary">>,
          autoDataset |-> <<"/", "auto-dataset">>]
    ELSE [analyze       |-> <<"/", "analyze">>,
          uploadDataset |-> <<"/", "upload-dataset">>,
          history       |-> <<"/", "history">>]

\* baseUrl || DEFAULT_SERVER_BASE_URL
OrDefault(baseUrl) == IF baseUrl = <<>> THEN DEFAULT_SERVER_BASE_URL ELSE baseUrl

getServerUrls(rev, baseUrl) ==
    LET base == IF rev = "config.ts" THEN baseUrl
                ELSE normalizeUrl(OrDefault(baseUrl))
    IN [e \in DOMAIN EndpointPaths(rev) |-> base \o EndpointPaths(rev)[e]]

NoEndpoints == [rev |-> "none", bare |-> <<>>, slashed |-> <<>>]

UrlIdle ==
    /\ urlIn = <<>>
    /\ urlNorm = <<>>
    /\ urlEndpoints = NoEndpoints

UrlInit ==
    /\ urlIn \in Urls
    /\ urlNorm = <<>>
    /\ urlEndpoints = NoEndpoints

\* normalizeUrl is applied to the URL, then to what it returned
ApplyNormalizeUrl ==
    /\ Len(urlNorm) < 2
    /\ urlNorm' = Append(urlNorm, normalizeUrl(IF urlNorm = <<>> THEN urlIn
                                                ELSE urlNorm[Len(urlNorm)]))
    /\ UNCHANGED <<urlIn, urlEndpoints>>

\* useMemo(() => getServerUrls(serverBaseUrl)) for the URL as typed and for the
\* same URL typed with one more slash
CallGetServerUrls(rev) ==
    /\ urlEndpoints.rev = "none"
    /\ urlEndpoints' = [rev |-> rev,
                        bare |-> getServerUrls(rev, urlIn),
                        slashed |-> getServerUrls(rev, Append(urlIn, "/"))]
    /\ UNCHANGED <<urlIn, urlNorm>>

\* ------------------------------------------------------------------------
\* uploadDataset
\* ------------------------------------------------------------------------
FISH_TYPES == {"danggit", "galunggong", "espada", "bangus", "pusit"}
CONDITIONS == {"local_quality", "export_quality", "moldy", "fresh"}

Undefined == <<"<undefined>">>

\* response.data of the POST: a JSON object with or without status and
\* message, or a body that is no object (a string, null, nothing)
UploadStatuses == {<<"success">>, <<"error">>, <<"queued">>, Undefined}
UploadMessages == {<<"quota", "exceeded">>, <<>>, Undefined}
UploadBodies ==
    [data : {"object"}, status : UploadStatuses, message : UploadMessages]
    \cup [data : {"string", "null", "undefined"}, status : {Undefined}, message : {Undefined}]
UploadOutcomes == [ok : {TRUE}, value : UploadBodies] \cup [ok : {FALSE}, value : Errors]

NoUpload == [ok |-> FALSE, value |-> NoError]
NoUploadResult == [kind |-> "pending", success |-> FALSE, message |-> <<>>, error |-> <<>>]

UploadIdle ==
    /\ upArgs = [fishType |-> "danggit", condition |-> "fresh"]
    /\ upPosts = 0
    /\ upIn = NoUpload
    /\ upOut = NoUploadResult

UploadInit ==
    /\ upArgs \in [fishType : FISH_TYPES, condition : CONDITIONS]
    /\ upPosts = 0
    /\ upIn = NoUpload
    /\ upOut = NoUploadResult

\* response.data.status throws a TypeError when response.data is null or undefined
StatusReadThrows(body) == body.data \in {"null", "undefined"}
CannotReadStatus == [code |-> "", message |-> <<"Cannot", "read", "property", "status">>]

Returned(success, message, error) ==
    [kind |-> "return", success |-> success, message |-> message, error |-> error]

\* x || fallback on a string
OrElse(x, fallback) == IF x = Undefined \/ x = <<>> THEN fallback ELSE x

\* the catch block of uploadDataset
uploadCatch(error) ==
    IF error.code = "ECONNABORTED" \/ MessageIncludes(error, <<"timeout">>)
    THEN Returned(FALSE, <<"Request timed out">>,
                  <<"Connection timed out. Please check your server IP address.">>)
    ELSE IF error.code = "ERR_NETWORK" \/ MessageIncludes(error, <<"Network", "Error">>)
    THEN Returned(FALSE, <<"Cannot connect to server">>,
                  <<"Unable to reach server. Please verify the IP address is correct.">>)
    ELSE Returned(FALSE, <<"Network error">>,
                  OrElse(error.message, <<"Failed to connect to server">>))

\* the try block of uploadDataset after the await, and its catch
uploadResult(o) ==
    IF ~o.ok THEN uploadCatch(o.value)
    ELSE IF StatusReadThrows(o.value) THEN uploadCatch(CannotReadStatus)
    ELSE IF o.value.status = <<"success">>
    THEN Returned(TRUE, <<"Image uploaded to Cloudinary successfully!">>, <<>>)
    ELSE IF o.value.status = <<"error">>
    THEN Returned(FALSE, <<"Upload failed">>,
                  OrElse(o.value.message, <<"Unknown error occurred">>))
    ELSE Returned(FALSE, <<"Upload failed">>, <<"Unexpected response from server">>)

\* uploadDataset(...): builds the form and awaits axios.post
uploadDataset ==
    /\ upPosts = 0
    /\ upPosts' = upPosts + 1
    /\ UNCHANGED <<upArgs, upIn, upOut>>

\* axios.post settles with o and uploadDataset returns
uploadSettle(o) ==
    /\ upPosts > 0 /\ upOut.kind = "pending"
    /\ upIn' = o
    /\ upOut' = uploadResult(o)
    /\ UNCHANGED <<upArgs, upPosts>>

\* ------------------------------------------------------------------------
\* fetchAnalytics and AnalyticsScreen
\* ------------------------------------------------------------------------
\* response.data of GET /analytics/summary: an AnalyticsSummary, or null, or
\* an object without the summary's fields ({status: "error", message})
NoNumber == -1
NoMap == {"<undefined>"}
SummaryMaps == {{}, {"Bangus"}}

\* the summaries the backend can send: the counts add up, each map is there
Summaries ==
    {[shape |-> "summary", status |-> "success",
      total_scans |-> t, daing_scans |-> d, non_daing_scans |-> t - d,
      fish_type_distribution |-> f, average_confidence |-> c, daily_scans |-> s] :
        <<t, d>> \in {td \in (0..MaxScans) \X (0..MaxScans) : td[2] <= td[1]},
        <<f, c, s>> \in SummaryMaps \X SummaryMaps \X SummaryMaps}

NotSummary(shape) ==
    [shape |-> shape, status |-> "error",
     total_scans |-> NoNumber, daing_scans |-> NoNumber, non_daing_scans |-> NoNumber,
     fish_type_distribution |-> NoMap, average_confidence |-> NoMap, daily_scans |-> NoMap]

AnalyticsBodies == Summaries \cup {NotSummary("null"), NotSummary("no_fields")}
AnalyticsOutcomes == [ok : {TRUE}, value : AnalyticsBodies] \cup [ok : {FALSE}, value : Errors]

\* the object the catch block of fetchAnalytics returns
EmptyAnalytics ==
    [shape |-> "summary", status |-> "error",
     total_scans |-> 0, daing_scans |-> 0, non_daing_scans |-> 0,
     fish_type_distribution |-> {}, average_confidence |-> {}, daily_scans |-> {}]

\* try { return response.data } catch { return <empty analytics> }
fetchAnalytics(o) ==
    IF o.ok THEN [kind |-> "return", value |-> o.value]
    ELSE [kind |-> "return", value |-> EmptyAnalytics]

NoAnalytics == NotSummary("null")
NoAnalyticsCall == [ok |-> FALSE, value |-> NoError]
NoAnalyticsResult == [kind |-> "pending", value |-> NoAnalytics]

\* useState(null), useState(true), useState(false)
AnalyticsInit ==
    /\ anMounted = FALSE
    /\ analytics = NoAnalytics
    /\ anLoading = TRUE
    /\ anRefreshing = FALSE
    /\ anFetches = 0
    /\ anIn = NoAnalyticsCall
    /\ anOut = NoAnalyticsResult

\* what AnalyticsScreen renders: the spinner, the empty state, the charts; the
\* charts read Object.keys(analytics.fish_type_distribution), which throws
\* when the field is missing
AnalyticsView ==
    IF anLoading THEN "loading"
    ELSE IF analytics.shape = "null" THEN "empty"
    ELSE IF analytics.shape = "summary" /\ analytics.total_scans = 0 THEN "empty"
    ELSE IF analytics.fish_type_distribution = NoMap THEN "render_throws"
    ELSE "data"

\* loadAnalytics up to its await
loadAnalytics ==
    /\ anFetches < MaxFetches
    /\ anFetches' = anFetches + 1

\* useEffect(() => { loadAnalytics(); }, [loadAnalytics])
AnalyticsMount ==
    /\ ~anMounted
    /\ anMounted' = TRUE
    /\ loadAnalytics
    /\ UNCHANGED <<analytics, anLoading, anRefreshing, anIn, anOut>>

\* RefreshControl of the charts: setRefreshing(true); loadAnalytics()
onRefresh ==
    /\ anMounted /\ AnalyticsView = "data"
    /\ anRefreshing' = TRUE
    /\ loadAnalytics
    /\ UNCHANGED <<anMounted, analytics, anLoading, anIn, anOut>>

\* Refresh button of the empty state: onPress={loadAnalytics}
AnalyticsRefreshButton ==
    /\ anMounted /\ AnalyticsView = "empty"
    /\ loadAnalytics
    /\ UNCHANGED <<anMounted, analytics, anLoading, anRefreshing, anIn, anOut>>

\* the rest of loadAnalytics: setAnalytics(data), or console.error in the
\* catch block, then setLoading(false), setRefreshing(false)
loadAnalyticsSettle(o) ==
    /\ anFetches > 0
    /\ anFetches' = anFetches - 1
    /\ anIn' = o
    /\ anOut' = fetchAnalytics(o)
    /\ analytics' = (IF fetchAnalytics(o).kind = "return"
                     THEN fetchAnalytics(o).value ELSE analytics)
    /\ anLoading' = FALSE
    /\ anRefreshing' = FALSE
    /\ UNCHANGED anMounted

\* ------------------------------------------------------------------------
\* Date sections of the grid (HistoryScreen, AutoDatasetScreen: sections)
\* ------------------------------------------------------------------------
\* an entry's timestamp is an ISO string: date, time, and a "Z" or nothing
Stamp(y, mo, d, h, mi, z) == [y |-> y, mo |-> mo, d |-> d, h |-> h, mi |-> mi, z |-> z]

\* days since 2024-01-01 of a date between 2023-12-01 and 2024-02-29
DaysFromCivil(y, mo, d) ==
    IF y = 2023 THEN d - 32
    ELSE IF mo = 1 THEN d - 1
    ELSE 30 + d

CivilFromDays(n) ==
    IF n < 0 THEN <<2023, 12, 32 + n>>
    ELSE IF n < 31 THEN <<2024, 1, n + 1>>
    ELSE <<2024, 2, n - 30>>

MinutesPerDay == 1440

\* new Date(timestamp): the instant, in minutes since 2024-01-01T00:00Z.  A
\* date-time string without an offset is read as local time, one ending in
\* "Z" as UTC.
DateParse(ts, tz) ==
    DaysFromCivil(ts.y, ts.mo, ts.d) * MinutesPerDay + ts.h * 60 + ts.mi
        - (IF ts.z = "Z" THEN 0 ELSE tz)

\* getFullYear(), getMonth() + 1, getDate(): the local calendar date of an instant
LocalDayNumber(instant, tz) == (instant + tz) \div MinutesPerDay
UtcDate(instant, tz) == CivilFromDays(instant \div MinutesPerDay)
LocalDate(instant, tz) == CivilFromDays(LocalDayNumber(instant, tz))

\* strings are sequences of character codes: "0" is 48, "-" is 45
Digit(k) == 48 + k
Hyphen == 45

\* String(n)
RECURSIVE DecimalString(_)
DecimalString(n) ==
    IF n < 10 THEN <<Digit(n)>>
    ELSE Append(DecimalString(n \div 10), Digit(n % 10))

\* str.padStart(2, "0")
PadStart2(str) == IF Len(str) < 2 THEN <<Digit(0)>> \o str ELSE str

\* the key `${year}-${month}-${day}` of an entry
DateKey(ts, tz) ==
    LET date == LocalDate(DateParse(ts, tz), tz)
    IN DecimalString(date[1]) \o <<Hyphen>> \o PadStart2(DecimalString(date[2]))
         \o <<Hyphen>> \o PadStart2(DecimalString(date[3]))

RECURSIVE StringGreater(_, _)
\* a > b on strings: by the first character that differs, a proper prefix is smaller
StringGreater(a, b) ==
    IF a = <<>> THEN FALSE
    ELSE IF b = <<>> THEN TRUE
    ELSE IF Head(a) # Head(b) THEN Head(a) > Head(b)
    ELSE StringGreater(Tail(a), Tail(b))

\* map.has(key) ? map.get(key).push(entry) : map.set(key, [entry])
AddToMap(map, key, entry) ==
    IF \E i \in 1..Len(map) : map[i].key = key
    THEN [i \in 1..Len(map) |->
             IF map[i].key = key
             THEN [key |-> key, list |-> Append(map[i].list, entry)]
             ELSE map[i]]
    ELSE Append(map, [key |-> key, list |-> <<entry>>])

RECURSIVE GroupByDate(_, _, _)
\* entries.forEach(...): the Map from date key to entries, in insertion order
GroupByDate(items, tz, map) ==
    IF items = <<>> THEN map
    ELSE GroupByDate(Tail(items), tz,
                     AddToMap(map, DateKey(Head(items).timestamp, tz), Head(items)))

CompareAscending(a, b) == IF StringGreater(a.key, b.key) THEN 1 ELSE -1
\* (a, b) => (a[0] > b[0] ? -1 : 1)
Compare(a, b) == IF StringGreater(a.key, b.key) THEN -1 ELSE 1

RECURSIVE InsertSorted(_, _)
InsertSorted(sorted, x) ==
    IF sorted = <<>> THEN <<x>>
    ELSE IF Compare(x, Head(sorted)) < 0 THEN <<x>> \o sorted
    ELSE <<Head(sorted)>> \o InsertSorted(Tail(sorted), x)

RECURSIVE SortSections(_)
\* Array.prototype.sort with the comparator above
SortSections(list) ==
    IF list = <<>> THEN <<>>
    ELSE InsertSorted(SortSections(SubSeq(list, 1, Len(list) - 1)), list[Len(list)])

NUM_COLUMNS == 3

RECURSIVE chunkEntries(_, _)
\* for (i = 0; i < items.length; i += chunkSize) chunks.push(items.slice(i, i + chunkSize))
chunkEntries(items, chunkSize) ==
    IF items = <<>> THEN <<>>
    ELSE IF Len(items) <= chunkSize THEN <<items>>
    ELSE <<SubSeq(items, 1, chunkSize)>>
             \o chunkEntries(SubSeq(items, chunkSize + 1, Len(items)), chunkSize)

\* a grid cell holds an entry's id or is a spacer
Spacer == 0

\* the cells of one row: row.map(...) and then, if row.length < 3, the spacers
RowCells(row) ==
    [i \in 1..Len(row) |-> row[i].id]
        \o (IF Len(row) < NUM_COLUMNS
            THEN [i \in 1..(NUM_COLUMNS - Len(row)) |-> Spacer] ELSE <<>>)

\* the sections as rendered
Sections(items, tz) ==
    LET sorted == SortSections(GroupByDate(items, tz, <<>>))
    IN [i \in 1..Len(sorted) |->
           LET rows == chunkEntries(sorted[i].list, NUM_COLUMNS)
           IN [isoDate |-> sorted[i].key,
               rows |-> rows,
               cells |-> [r \in 1..Len(rows) |-> RowCells(rows[r])]]]

\* the timestamps the backend sends, and the time zones of the device
Stamps == {Stamp(2024, 1, 15, 23, 50, ""), Stamp(2024, 1, 16, 0, 10, ""),
           Stamp(2024, 1, 15, 23, 50, "Z"), Stamp(2024, 1, 16, 0, 10, "Z"),
           Stamp(2023, 12, 31, 23, 50, "Z")}
TzOffsets == {-300, 0, 60}

\* entries lists: ids 1..n in the order received, any timestamps
EntryLists ==
    UNION {{[i \in 1..n |-> [id |-> i, timestamp |-> f[i]]] : f \in [1..n -> Stamps]} :
              n \in 0..MaxSecEntries}

NoSections == [done |-> FALSE, list |-> <<>>]

SectionsIdle ==
    /\ tzOffset = 0
    /\ secEntries = <<>>
    /\ sections = NoSections

SectionsInit ==
    /\ tzOffset \in TzOffsets
    /\ secEntries \in EntryLists
    /\ sections = NoSections

\* the screen renders: useMemo computes the sections, the grid lays out the rows
RenderSections ==
    /\ ~sections.done
    /\ sections' = [done |-> TRUE, list |-> Sections(secEntries, tzOffset)]
    /\ UNCHANGED <<tzOffset, secEntries>>

\* ------------------------------------------------------------------------
\* Collection screen (HistoryScreen, AutoDatasetScreen)
\* ------------------------------------------------------------------------
\* local calendar day of an entry's timestamp: ids 1,2 share a day, 3,4 the next
DateOf(id) == (id + 1) \div 2

\* the backend lists every entry, newest first
ServerInit == [i \in 1..MaxIds |-> MaxIds + 1 - i]

SentFetch == [phase |-> "sent", data |-> <<>>]
InFlight == BagToSet(fetches)
NoDelete == [kind |-> "none", ids |-> {}, ok |-> {}]
NoSettle == [kind |-> "none", outcome |-> "none"]

\* Alert.alert(title, ...): the dialog stays up until dismissed
Raise(title) == alerts' = Append(alerts, title)
CanRaise == Len(alerts) < MaxAlerts

\* Alert dialogs are modal: no touch reaches the screen while one is open
UserCan == mounted /\ alerts = <<>>
ViewerShown == selectedEntry # Null
\* the grid is rendered when no entry is viewed; while isDeleting the deletion
\* overlay covers it (HistoryScreen) or replaces it (AutoDatasetScreen)
GridTouchable == UserCan /\ ~ViewerShown /\ ~isDeleting
\* the ScrollView with the entries is rendered only when entries is non-empty
ListShown == entries # <<>>

ScreenInit ==
    /\ screen \in {"history", "autoDataset"}
    /\ mounted = FALSE
    /\ entries = <<>>
    /\ loading = FALSE
    \* HistoryScreen: useState(initialEntry)
    \* initialEntry is null or latestHistoryEntry, entries[0] of the app's own fetch
    /\ selectedEntry \in (IF screen = "history" THEN {Null, ServerInit[1]} ELSE {Null})
    /\ isDeleting = FALSE
    /\ selectedIds = {}
    /\ isSelectionMode = FALSE
    /\ alerts = <<>>
    /\ fetches = EmptyBag
    /\ delOp = NoDelete
    /\ orphans = {}
    /\ lastDelete = NoSettle
    /\ server = ServerInit

\* ---- loadHistory / loadDataset ----
NoFetchSettle == [kind |-> "none", before |-> <<>>]
NoFetchSettled == lastFetch = NoFetchSettle
OneFetchAtATime == fetchCap = MaxFetches

\* setLoading(true); await fetchHistory(url)
loadHistory ==
    /\ BagCardinality(fetches) < fetchCap
    /\ fetches' = fetches (+) SetToBag({SentFetch})
    /\ loading' = TRUE

\* useEffect(() => { loadHistory(); }, [loadHistory])
Mount ==
    /\ ~mounted
    /\ mounted' = TRUE
    /\ loadHistory
    /\ UNCHANGED <<screen, entries, selectedEntry, isDeleting, selectedIds,
                   isSelectionMode, alerts, delOp, orphans, server>>

\* pull-to-refresh, the Refresh button of the empty state, and the header
\* refresh button of AutoDatasetScreen
Refresh ==
    /\ GridTouchable
    /\ \/ ListShown
       \/ entries = <<>> /\ ~loading
       \/ screen = "autoDataset" /\ ~isSelectionMode
    /\ loadHistory
    /\ UNCHANGED <<screen, mounted, entries, selectedEntry, isDeleting,
                   selectedIds, isSelectionMode, alerts, delOp, orphans, server>>

\* the backend answers GET /history with its collection as it is now
ServerAnswerFetch ==
    /\ SentFetch \in InFlight
    /\ fetches' = (fetches (-) SetToBag({SentFetch}))
                     (+) SetToBag({[phase |-> "answered", data |-> server]})
    /\ UNCHANGED <<screen, mounted, entries, loading, selectedEntry, isDeleting,
                   selectedIds, isSelectionMode, alerts, delOp, orphans, server>>

\* what axios.get can settle with for the fetch f: a transport error or
\* timeout at any time, a payload without entries, or the backend's answer
SettleErrors == [kind : {"error"}, value : {ErrAborted}]
SettleMalformed == [kind : {"malformed"}, value : {"entries_missing"}]
SettleArrays(f) ==
    IF f.phase = "answered" THEN {[kind |-> "array", value |-> f.data]} ELSE {}

loadHistorySettleStaysLoading(f, o) ==
    /\ f \in InFlight
    /\ LET r == fetchHistory(apiRev, o) IN
       IF r.kind = "return"
       THEN /\ entries' = r.value
            /\ UNCHANGED alerts
       ELSE /\ CanRaise
            /\ Raise(IF screen = "history" THEN "History" ELSE "Dataset")
            /\ UNCHANGED entries
    /\ loading' = (LET r == fetchHistory(apiRev, o) IN r.kind # "return")
    /\ fetches' = fetches (-) SetToBag({f})
    /\ UNCHANGED <<screen, mounted, selectedEntry, isDeleting, selectedIds,
                   isSelectionMode, delOp, orphans, server>>

\* the rest of loadHistory once fetchHistory settles: setEntries(data) or the
\* alert of the catch block, then setLoading(false)
loadHistorySettle(f, o) ==
    /\ f \in InFlight
    /\ LET r == fetchHistory(apiRev, o) IN
       IF r.kind = "return"
       THEN /\ entries' = r.value
            /\ UNCHANGED alerts
       ELSE /\ CanRaise
            /\ Raise(IF screen = "history" THEN "History" ELSE "Dataset")
            /\ UNCHANGED entries
    /\ loading' = FALSE
    /\ fetches' = fetches (-) SetToBag({f})
    /\ UNCHANGED <<screen, mounted, selectedEntry, isDeleting, selectedIds,
                   isSelectionMode, delOp, orphans, server>>

\* the user dismisses the dialog on top
DismissAlert ==
    /\ alerts # <<>>
    /\ alerts' = Tail(alerts)
    /\ UNCHANGED <<screen, mounted, entries, loading, selectedEntry, isDeleting,
                   selectedIds, isSelectionMode, fetches, delOp, orphans, server>>

\* ---- selection ----
handleLongPress(id) ==
    /\ GridTouchable /\ ListShown
    /\ id \in Range(entries)
    /\ isSelectionMode' = TRUE
    /\ selectedIds' = {id}
    /\ UNCHANGED <<screen, mounted, entries, loading, selectedEntry, isDeleting,
                   alerts, fetches, delOp, orphans, server>>

ToggleAddOnly(prev, id) == prev \cup {id}
\* the set the updater of handleImagePress returns
Toggle(prev, id) == IF id \in prev THEN prev \ {id} ELSE prev \cup {id}

ModeAfterKept(newSet) == isSelectionMode
\* if (newSet.size === 0) setIsSelectionMode(false)
ModeAfter(newSet) == IF newSet = {} THEN FALSE ELSE isSelectionMode

handleImagePress(id) ==
    /\ GridTouchable /\ ListShown
    /\ id \in Range(entries)
    /\ IF isSelectionMode
       THEN /\ selectedIds' = Toggle(selectedIds, id)
            /\ isSelectionMode' = ModeAfter(Toggle(selectedIds, id))
            /\ UNCHANGED selectedEntry
       ELSE /\ selectedEntry' = id
            /\ UNCHANGED <<selectedIds, isSelectionMode>>
    /\ UNCHANGED <<screen, mounted, entries, loading, isDeleting, alerts,
                   fetches, delOp, orphans, server>>

cancelSelection ==
    /\ GridTouchable
    /\ isSelectionMode
    /\ selectedIds' = {}
    /\ isSelectionMode' = FALSE
    /\ UNCHANGED <<screen, mounted, entries, loading, selectedEntry, isDeleting,
                   alerts, fetches, delOp, orphans, server>>

\* the ids of one date section
Bucket(d) == {id \in Range(entries) : DateOf(id) = d}

SelectAllAddOnly(prev, dateIds) == prev \cup dateIds
\* the set the updater of handleSelectAllInDate returns
SelectAll(prev, dateIds) ==
    IF dateIds \subseteq prev THEN prev \ dateIds ELSE prev \cup dateIds

handleSelectAllInDate(d) ==
    /\ GridTouchable /\ ListShown
    /\ isSelectionMode
    /\ Bucket(d) # {}
    /\ selectedIds' = SelectAll(selectedIds, Bucket(d))
    /\ isSelectionMode' = ModeAfter(SelectAll(selectedIds, Bucket(d)))
    /\ UNCHANGED <<screen, mounted, entries, loading, selectedEntry, isDeleting,
                   alerts, fetches, delOp, orphans, server>>

\* ---- full-screen viewer ----
closeViewer ==
    /\ UserCan /\ ViewerShown
    /\ selectedEntry' = Null
    /\ UNCHANGED <<screen, mounted, entries, loading, isDeleting, selectedIds,
                   isSelectionMode, alerts, fetches, delOp, orphans, server>>

\* onMomentumScrollEnd: if (entries[newIndex]) setSelectedEntry(entries[newIndex])
onMomentumScrollEnd(newIndex) ==
    /\ UserCan /\ ViewerShown
    /\ newIndex \in 1..Len(entries)
    /\ selectedEntry' = entries[newIndex]
    /\ UNCHANGED <<screen, mounted, entries, loading, isDeleting, selectedIds,
                   isSelectionMode, alerts, fetches, delOp, orphans, server>>

\* getCurrentIndex(): entries.findIndex(e => e.id === selectedEntry.id), 0-based
getCurrentIndex ==
    IF selectedEntry = Null \/ selectedEntry \notin Range(entries) THEN -1
    ELSE (CHOOSE i \in 1..Len(entries) :
              entries[i] = selectedEntry /\ \A j \in 1..(i - 1) : entries[j] # selectedEntry) - 1

NewIndexWrapping(direction, currentIndex) ==
    IF direction = "next" THEN (currentIndex + 1) % Len(entries)
    ELSE (currentIndex + Len(entries) - 1) % Len(entries)
\* newIndex of navigateToImage
NewIndex(direction, currentIndex) ==
    IF direction = "next" /\ currentIndex < Len(entries) - 1 THEN currentIndex + 1
    ELSE IF direction = "prev" /\ currentIndex > 0 THEN currentIndex - 1
    ELSE currentIndex

NoFlatList == -1
NoNav == [dir |-> "none", from |-> -1, n |-> 0]
Directions == {"next", "prev"}

ViewerIdle ==
    /\ page = NoFlatList
    /\ nav = NoNav

\* the viewer of the first HistoryScreen revision: a swipe released past the
\* threshold calls navigateToImage(direction)
navigateToImage(direction) ==
    /\ page = NoFlatList
    /\ UserCan /\ ViewerShown
    /\ nav' = [dir |-> direction, from |-> getCurrentIndex, n |-> Len(entries)]
    /\ IF getCurrentIndex = -1 THEN UNCHANGED selectedEntry
       ELSE selectedEntry' = entries[NewIndex(direction, getCurrentIndex) + 1]
    /\ UNCHANGED <<screen, mounted, entries, loading, isDeleting, selectedIds,
                   isSelectionMode, alerts, fetches, delOp, orphans, server, page>>

\* the FlatList of the later revisions is mounted when the viewer opens:
\* initialScrollIndex={currentIndex >= 0 ? currentIndex : undefined}
InitialScrollIndex(list, entry) ==
    IF \E i \in 1..Len(list) : list[i] = entry
    THEN (CHOOSE i \in 1..Len(list) : list[i] = entry) - 1
    ELSE 0

\* a horizontal pagingEnabled scroll view moves one page per swipe and cannot
\* scroll beyond its content
PageAfterSwipe(direction) ==
    IF direction = "next"
    THEN (IF page + 1 < Len(entries) THEN page + 1 ELSE page)
    ELSE (IF page > 0 THEN page - 1 ELSE page)

\* the scroll offset is kept when the data changes, up to the end of the content
PageAfterData(list) ==
    IF Len(list) = 0 THEN 0
    ELSE IF page > Len(list) - 1 THEN Len(list) - 1
    ELSE page

\* a swipe in the FlatList viewer, then onMomentumScrollEnd with the new page:
\* if (entries[newIndex]) setSelectedEntry(entries[newIndex])
swipeFlatList(direction) ==
    /\ page # NoFlatList
    /\ UserCan /\ ViewerShown
    /\ nav' = [dir |-> direction, from |-> getCurrentIndex, n |-> Len(entries)]
    /\ page' = PageAfterSwipe(direction)
    /\ IF PageAfterSwipe(direction) + 1 \in 1..Len(entries)
       THEN selectedEntry' = entries[PageAfterSwipe(direction) + 1]
       ELSE UNCHANGED selectedEntry
    /\ UNCHANGED <<screen, mounted, entries, loading, isDeleting, selectedIds,
                   isSelectionMode, alerts, fetches, delOp, orphans, server>>

\* ---- delete ----
\* handleDeleteEntry(entry), reached through the Delete button of confirmDelete:
\* if (isDeleting) return; setIsDeleting(true); await deleteHistoryEntry(url, entry.id)
handleDeleteEntry ==
    /\ UserCan /\ ViewerShown
    /\ ~isDeleting
    /\ isDeleting' = TRUE
    /\ delOp' = [kind |-> "single", ids |-> {selectedEntry}, ok |-> {}]
    /\ UNCHANGED <<screen, mounted, entries, loading, selectedEntry, selectedIds,
                   isSelectionMode, alerts, fetches, orphans, server>>

\* handleBatchDelete, Delete button of its dialog: if (selectedIds.size === 0) return;
\* setIsDeleting(true); one deleteHistoryEntry call per selected id; await Promise.all
handleBatchDelete ==
    /\ GridTouchable
    /\ isSelectionMode
    /\ selectedIds # {}
    /\ isDeleting' = TRUE
    /\ delOp' = [kind |-> "batch", ids |-> selectedIds, ok |-> {}]
    /\ UNCHANGED <<screen, mounted, entries, loading, selectedEntry, selectedIds,
                   isSelectionMode, alerts, fetches, orphans, server>>

PromiseAnyFulfilled(ids, ok) == ok # {}
\* Promise.all(deletePromises) fulfils once every call has fulfilled
PromiseAllFulfilled(ids, ok) == ok = ids

SingleDeletedFirst(ids) ==
    /\ entries' = (IF entries = <<>> THEN <<>> ELSE Tail(entries))
    /\ selectedEntry' = Null
    /\ UNCHANGED <<selectedIds, isSelectionMode, alerts>>

\* after the await of handleDeleteEntry
SingleDeleted(ids) ==
    /\ entries' = FilterOut(entries, ids)
    /\ selectedEntry' = Null
    /\ UNCHANGED <<selectedIds, isSelectionMode, alerts>>

\* after the await of handleBatchDelete; the closure's selectedIds is delOp.ids
BatchDeleted(ids) ==
    /\ entries' = FilterOut(entries, ids)
    /\ selectedIds' = {}
    /\ isSelectionMode' = FALSE
    /\ UNCHANGED <<selectedEntry, alerts>>

DeleteFailedOptimistic ==
    /\ Raise("Delete Failed")
    /\ entries' = FilterOut(entries, delOp.ids)
    /\ selectedEntry' = Null
    /\ UNCHANGED <<selectedIds, isSelectionMode>>

\* the catch block of both handlers
DeleteFailed ==
    /\ Raise("Delete Failed")
    /\ UNCHANGED <<entries, selectedEntry, selectedIds, isSelectionMode>>

\* does the backend drop the entry: "ok" answers 2xx, "rejected" fails without
\* deleting, "lost" deletes but the answer never arrives (timeout)
DeleteOutcomes == {"ok", "rejected", "lost"}
ServerAfterDelete(id, outcome) ==
    IF outcome \in {"ok", "lost"} THEN FilterOut(server, {id}) ELSE server

\* one delete call of the running handler settles; the handler continues when
\* its await settles (every call fulfilled, or the first rejection)
DeleteSettle(id, outcome) ==
    /\ id \in delOp.ids \ delOp.ok
    /\ server' = ServerAfterDelete(id, outcome)
    /\ IF outcome = "ok"
       THEN /\ lastDelete' = [kind |-> delOp.kind, outcome |-> "ok"]
            /\ IF PromiseAllFulfilled(delOp.ids, delOp.ok \cup {id})
               THEN /\ IF delOp.kind = "single"
                       THEN SingleDeleted(delOp.ids)
                       ELSE BatchDeleted(delOp.ids)
                    /\ isDeleting' = FALSE
                    /\ delOp' = NoDelete
               ELSE /\ delOp' = [delOp EXCEPT !.ok = delOp.ok \cup {id}]
                    /\ UNCHANGED <<entries, selectedEntry, selectedIds,
                                   isSelectionMode, alerts, isDeleting>>
            /\ UNCHANGED orphans
       ELSE /\ lastDelete' = [kind |-> delOp.kind, outcome |-> "rejected"]
            /\ CanRaise
            /\ DeleteFailed
            /\ isDeleting' = FALSE
            /\ delOp' = NoDelete
            /\ orphans' = orphans \cup (delOp.ids \ (delOp.ok \cup {id}))
    /\ UNCHANGED <<screen, mounted, loading, fetches>>

\* a delete call whose Promise.all has already rejected settles: nobody listens,
\* so all that matters is whether the backend has dropped the entry
OrphanOutcomes == {"ok", "rejected"}
OrphanSettle(id, outcome) ==
    /\ id \in orphans
    /\ orphans' = orphans \ {id}
    /\ server' = ServerAfterDelete(id, outcome)
    /\ UNCHANGED <<screen, mounted, entries, loading, selectedEntry, isDeleting,
                   selectedIds, isSelectionMode, alerts, fetches, delOp>>

\* ---- the record of selection gestures ----
\* op, arg: the last gesture on the grid; n: how many times it has now been made
\* in a row (1 or 2); mid: selectedIds before it; before: selectedIds before
\* the one preceding it, when that was the same gesture
NoGesture == [op |-> "none", arg |-> 0, n |-> 0, before |-> {}, mid |-> {}]

Gesture(op, arg) ==
    gesture' = IF gesture.op = op /\ gesture.arg = arg
               THEN [op |-> op, arg |-> arg, n |-> 2,
                     before |-> gesture.mid, mid |-> selectedIds]
               ELSE [op |-> op, arg |-> arg, n |-> 1,
                     before |-> selectedIds, mid |-> selectedIds]

\* ------------------------------------------------------------------------
\* The app (Index): navigation, settings, scan flow
\* ------------------------------------------------------------------------
Screens == {"home", "scan", "analytics", "history", "autoDataset"}
Images == 1..MaxImages
ScanRevs == {"overlay", "spinner"}

\* the rest of the app while a part of it is looked at alone
AppIdle ==
    /\ currentScreen = "home"
    /\ showSettings = FALSE
    /\ autoSaveDataset = FALSE
    /\ viewingFromScan = FALSE
    /\ latestHistoryEntry = Null
    /\ thumbFetches = 0
    /\ scanRev = "overlay"
    /\ capturedImage = Null
    /\ analysisResult = Null
    /\ scanLoading = FALSE
    /\ shots = 0
    /\ analyses = EmptyBag

\* Index after its first render: the effect has called loadLatestHistory
AppInit ==
    /\ currentScreen = "home"
    /\ showSettings = FALSE
    /\ autoSaveDataset = FALSE
    /\ viewingFromScan = FALSE
    /\ latestHistoryEntry = Null
    /\ thumbFetches = 1
    /\ scanRev \in ScanRevs
    /\ capturedImage = Null
    /\ analysisResult = Null
    /\ scanLoading = FALSE
    /\ shots = 0
    /\ analyses = EmptyBag

\* no Alert dialog is open (dialogs are modal)
Touchable == alerts = <<>>
\* the home screen is rendered and the settings modal does not cover it
HomeTouchable == Touchable /\ currentScreen = "home" /\ ~showSettings

\* useEffect(..., [serverUrls.history, analysisResult]): a change of
\* analysisResult calls loadLatestHistory again; calls beyond MaxPending are
\* not counted (all a call does is set latestHistoryEntry)
ThumbFetchesAfter(result) ==
    IF result # analysisResult /\ thumbFetches < MaxPending
    THEN thumbFetches + 1 ELSE thumbFetches

HomeTargetsUngated == {"scan", "history", "analytics", "autoDataset"}
\* the entries of the home screen's navigation grid
HomeTargets ==
    {"scan", "history", "analytics"} \cup (IF autoSaveDataset THEN {"autoDataset"} ELSE {})

\* HomeScreen: onNavigate(target), the Auto Dataset button under {autoSaveDataset && ...}
homeNavigate(target) ==
    /\ HomeTouchable
    /\ target \in HomeTargets
    /\ currentScreen' = target
    /\ UNCHANGED <<showSettings, autoSaveDataset, viewingFromScan, latestHistoryEntry,
                   thumbFetches, scanRev, capturedImage, analysisResult, scanLoading,
                   shots, analyses, alerts>>

onOpenSettings ==
    /\ HomeTouchable
    /\ showSettings' = TRUE
    /\ UNCHANGED <<currentScreen, autoSaveDataset, viewingFromScan, latestHistoryEntry,
                   thumbFetches, scanRev, capturedImage, analysisResult, scanLoading,
                   shots, analyses, alerts>>

\* SettingsModal is rendered with the home screen only
SettingsTouchable == Touchable /\ currentScreen = "home" /\ showSettings

onToggleAutoSaveDataset ==
    /\ SettingsTouchable
    /\ autoSaveDataset' = ~autoSaveDataset
    /\ UNCHANGED <<currentScreen, showSettings, viewingFromScan, latestHistoryEntry,
                   thumbFetches, scanRev, capturedImage, analysisResult, scanLoading,
                   shots, analyses, alerts>>

onClose ==
    /\ SettingsTouchable
    /\ showSettings' = FALSE
    /\ UNCHANGED <<currentScreen, autoSaveDataset, viewingFromScan, latestHistoryEntry,
                   thumbFetches, scanRev, capturedImage, analysisResult, scanLoading,
                   shots, analyses, alerts>>

\* the back button of AnalyticsScreen, HistoryScreen and AutoDatasetScreen:
\* onNavigate("home"); for HistoryScreen Index also clears viewingFromScan
backHome ==
    /\ Touchable
    /\ currentScreen \in {"analytics", "history", "autoDataset"}
    /\ currentScreen' = "home"
    /\ viewingFromScan' = (IF currentScreen = "history" THEN FALSE ELSE viewingFromScan)
    /\ UNCHANGED <<showSettings, autoSaveDataset, latestHistoryEntry, thumbFetches,
                   scanRev, capturedImage, analysisResult, scanLoading, shots,
                   analyses, alerts>>

\* loadLatestHistory after its await: if (entries.length > 0) setLatestHistoryEntry(entries[0])
loadLatestHistorySettle(found) ==
    /\ thumbFetches > 0
    /\ thumbFetches' = thumbFetches - 1
    /\ latestHistoryEntry' = (IF found THEN 1 ELSE latestHistoryEntry)
    /\ UNCHANGED <<currentScreen, showSettings, autoSaveDataset, viewingFromScan,
                   scanRev, capturedImage, analysisResult, scanLoading, shots,
                   analyses, alerts>>

\* ---- ScanScreen: which scenario is rendered ----
ScanTouchable == Touchable /\ currentScreen = "scan"
ResultShown == analysisResult # Null
PreviewShown == analysisResult = Null /\ capturedImage # Null
CameraShown == analysisResult = Null /\ capturedImage = Null
\* "overlay": a full-screen overlay lies over the preview while loading;
\* "spinner": only the button bar is replaced by the ActivityIndicator
HeaderTouchable == scanRev = "spinner" \/ ~scanLoading

\* handleTakePicture / handlePickImage up to the await
handleTakePicture ==
    /\ ScanTouchable /\ CameraShown
    /\ shots < MaxPending
    /\ shots' = shots + 1
    /\ UNCHANGED <<currentScreen, showSettings, autoSaveDataset, viewingFromScan,
                   latestHistoryEntry, thumbFetches, scanRev, capturedImage,
                   analysisResult, scanLoading, analyses, alerts>>

\* ... and after it: if (uri) setCapturedImage(uri); no image when the user
\* cancels the picker or the camera fails
takePictureSettle(uri) ==
    /\ shots > 0
    /\ shots' = shots - 1
    /\ capturedImage' = (IF uri = Null THEN capturedImage ELSE uri)
    /\ UNCHANGED <<currentScreen, showSettings, autoSaveDataset, viewingFromScan,
                   latestHistoryEntry, thumbFetches, scanRev, analysisResult,
                   scanLoading, analyses, alerts>>

\* handleAnalyzeFish up to the await: if (!capturedImage) return; setLoading(true)
handleAnalyzeFish ==
    /\ ScanTouchable /\ PreviewShown
    /\ ~scanLoading
    /\ BagCardinality(analyses) < MaxPending
    /\ scanLoading' = TRUE
    /\ analyses' = analyses (+) SetToBag({[image |-> capturedImage, autoSave |-> autoSaveDataset]})
    /\ UNCHANGED <<currentScreen, showSettings, autoSaveDataset, viewingFromScan,
                   latestHistoryEntry, thumbFetches, scanRev, capturedImage,
                   analysisResult, shots, alerts>>

AnalyzeOutcomes == {"return", "throw"}

\* setAnalysisResult(result) of the try block
ResultAfter(call, outcome) ==
    IF outcome = "return" THEN call.image ELSE analysisResult

\* ... and after it: setAnalysisResult(result), or the alert of the catch
\* block; finally setLoading(false)
analyzeSettle(call, outcome) ==
    /\ call \in BagToSet(analyses)
    /\ analyses' = analyses (-) SetToBag({call})
    /\ analysisResult' = ResultAfter(call, outcome)
    /\ thumbFetches' = ThumbFetchesAfter(ResultAfter(call, outcome))
    /\ IF outcome = "throw"
       THEN CanRaise /\ Raise("Connection Failed")
       ELSE UNCHANGED alerts
    /\ scanLoading' = FALSE
    /\ UNCHANGED <<currentScreen, showSettings, autoSaveDataset, viewingFromScan,
                   latestHistoryEntry, scanRev, capturedImage, shots>>

\* handleReset, from "Retake" / the back button of the preview / "Scan
\* Another"; home = TRUE for the buttons that also call onNavigate("home")
handleReset(home) ==
    /\ ScanTouchable
    /\ \/ ResultShown
       \/ PreviewShown /\ HeaderTouchable /\ ~home
       \/ CameraShown /\ home
    /\ capturedImage' = Null
    /\ analysisResult' = Null
    /\ thumbFetches' = ThumbFetchesAfter(Null)
    /\ scanLoading' = FALSE
    /\ currentScreen' = (IF home THEN "home" ELSE currentScreen)
    /\ UNCHANGED <<showSettings, autoSaveDataset, viewingFromScan, latestHistoryEntry,
                   scanRev, shots, analyses, alerts>>

\* the thumbnail of the camera view, rendered when latestHistoryImage is set
handleViewHistoryImage ==
    /\ ScanTouchable /\ CameraShown
    /\ latestHistoryEntry # Null
    /\ viewingFromScan' = TRUE
    /\ currentScreen' = "history"
    /\ UNCHANGED <<showSettings, autoSaveDataset, latestHistoryEntry, thumbFetches,
                   scanRev, capturedImage, analysisResult, scanLoading, shots,
                   analyses, alerts>>

\* the user dismisses the alert of handleAnalyzeFish
appDismissAlert ==
    /\ alerts # <<>>
    /\ alerts' = Tail(alerts)
    /\ UNCHANGED appVars

\* ------------------------------------------------------------------------
\* Specifications
\* ------------------------------------------------------------------------
ScreenIdle ==
    /\ screen = "none"
    /\ mounted = FALSE
    /\ entries = <<>>
    /\ loading = FALSE
    /\ selectedEntry = Null
    /\ isDeleting = FALSE
    /\ selectedIds = {}
    /\ isSelectionMode = FALSE
    /\ alerts = <<>>
    /\ fetches = EmptyBag
    /\ delOp = NoDelete
    /\ orphans = {}
    /\ lastDelete = NoSettle
    /\ server = <<>>
    /\ gesture = NoGesture

InitRetry ==
    /\ RetryInit
    /\ FetchInit
    /\ apiRev = "silent"
    /\ ScreenIdle
    /\ UrlIdle
    /\ UploadIdle
    /\ AnalyticsInit
    /\ SectionsIdle
    /\ ViewerIdle
    /\ AppIdle
    /\ NotProcessed
    /\ NoFetchSettled
    /\ OneFetchAtATime

NextRetry ==
    \/ withRetry /\ UNCHANGED <<apiRev, fetchVars, screenVars, gesture, urlVars, callVars>>
    \/ \E o \in Outcomes : Attempt(o) /\ UNCHANGED <<apiRev, fetchVars, screenVars, gesture, urlVars, callVars>>
    \/ DelayElapsed /\ UNCHANGED <<apiRev, fetchVars, screenVars, gesture, urlVars, callVars>>

SpecRetry == InitRetry /\ [][NextRetry]_vars

\* analyzeFish in both revisions of services/api: "silent" is the revision with
\* withRetry, "throwing" the one that posts once
InitAnalyze ==
    /\ RetryInit
    /\ FetchInit
    /\ apiRev \in {"silent", "throwing"}
    /\ ScreenIdle
    /\ UrlIdle
    /\ UploadIdle
    /\ AnalyticsInit
    /\ SectionsIdle
    /\ ViewerIdle
    /\ AppIdle
    /\ NotProcessed
    /\ NoFetchSettled
    /\ OneFetchAtATime

OnlyRetryVars == UNCHANGED <<apiRev, fetchVars, screenVars, gesture, urlVars, callVars>>

NextAnalyze ==
    \/ apiRev = "silent" /\ withRetry /\ OnlyRetryVars
    \/ \E o \in Outcomes : Attempt(o) /\ OnlyRetryVars
    \/ DelayElapsed /\ OnlyRetryVars
    \/ \E o \in Outcomes : apiRev = "throwing" /\ postOnce(o) /\ OnlyRetryVars
    \/ analyzeFishCatch /\ OnlyRetryVars
    \/ \E event \in ReaderEvents : analyzeFishRead(event) /\ OnlyRetryVars

SpecAnalyze == InitAnalyze /\ [][NextAnalyze]_vars

InitFetch ==
    /\ RetryInit
    /\ FetchInit
    /\ apiRev \in {"silent", "throwing"}
    /\ ScreenIdle
    /\ UrlIdle
    /\ UploadIdle
    /\ AnalyticsInit
    /\ SectionsIdle
    /\ ViewerIdle
    /\ AppIdle
    /\ NotProcessed
    /\ NoFetchSettled
    /\ OneFetchAtATime

NextFetch ==
    \/ \E o \in GetArrays : CallFetchHistory(o) /\ UNCHANGED <<retryVars, apiRev, screenVars, gesture, urlVars, callVars>>
    \/ \E o \in GetMalformed : CallFetchHistory(o) /\ UNCHANGED <<retryVars, apiRev, screenVars, gesture, urlVars, callVars>>
    \/ \E o \in GetErrors : CallFetchHistory(o) /\ UNCHANGED <<retryVars, apiRev, screenVars, gesture, urlVars, callVars>>

SpecFetch == InitFetch /\ [][NextFetch]_vars

InitUrl ==
    /\ RetryInit
    /\ FetchInit
    /\ apiRev = "silent"
    /\ ScreenIdle
    /\ UrlInit
    /\ UploadIdle
    /\ AnalyticsInit
    /\ SectionsIdle
    /\ ViewerIdle
    /\ AppIdle
    /\ NotProcessed
    /\ NoFetchSettled
    /\ OneFetchAtATime

NextUrl ==
    \/ ApplyNormalizeUrl
         /\ UNCHANGED <<retryVars, apiRev, fetchVars, screenVars, gesture, callVars>>
    \/ \E rev \in ConfigRevs : CallGetServerUrls(rev)
         /\ UNCHANGED <<retryVars, apiRev, fetchVars, screenVars, gesture, callVars>>

SpecUrl == InitUrl /\ [][NextUrl]_vars

InitUpload ==
    /\ RetryInit
    /\ FetchInit
    /\ apiRev \in {"silent", "throwing"}
    /\ ScreenIdle
    /\ UrlIdle
    /\ UploadInit
    /\ AnalyticsInit
    /\ SectionsIdle
    /\ ViewerIdle
    /\ AppIdle
    /\ NotProcessed
    /\ NoFetchSettled
    /\ OneFetchAtATime

OnlyUploadVars ==
    UNCHANGED <<retryVars, apiRev, fetchVars, screenVars, gesture, urlVars, analyticsVars,
                sectionVars, viewerVars, loadVars, appVars, refreshVars, backendVars>>

NextUpload ==
    \/ uploadDataset /\ OnlyUploadVars
    \/ \E o \in UploadOutcomes : uploadSettle(o) /\ OnlyUploadVars

SpecUpload == InitUpload /\ [][NextUpload]_vars

InitSections ==
    /\ RetryInit
    /\ FetchInit
    /\ apiRev = "silent"
    /\ ScreenIdle
    /\ UrlIdle
    /\ UploadIdle
    /\ AnalyticsInit
    /\ SectionsInit
    /\ ViewerIdle
    /\ AppIdle
    /\ NotProcessed
    /\ NoFetchSettled
    /\ OneFetchAtATime

NextSections ==
    RenderSections
        /\ UNCHANGED <<retryVars, apiRev, fetchVars, screenVars, gesture, urlVars,
                       uploadVars, analyticsVars, viewerVars, loadVars, appVars, refreshVars, backendVars>>

SpecSections == InitSections /\ [][NextSections]_vars

InitAnalytics ==
    /\ RetryInit
    /\ FetchInit
    /\ apiRev = "silent"
    /\ ScreenIdle
    /\ UrlIdle
    /\ UploadIdle
    /\ AnalyticsInit
    /\ SectionsIdle
    /\ ViewerIdle
    /\ AppIdle
    /\ NotProcessed
    /\ NoFetchSettled
    /\ OneFetchAtATime

OnlyAnalyticsVars ==
    UNCHANGED <<retryVars, apiRev, fetchVars, screenVars, gesture, urlVars, uploadVars,
                sectionVars, viewerVars, loadVars, appVars, refreshVars, backendVars>>

NextAnalytics ==
    \/ AnalyticsMount /\ OnlyAnalyticsVars
    \/ onRefresh /\ OnlyAnalyticsVars
    \/ AnalyticsRefreshButton /\ OnlyAnalyticsVars
    \/ \E o \in AnalyticsOutcomes : loadAnalyticsSettle(o) /\ OnlyAnalyticsVars

SpecAnalytics == InitAnalytics /\ [][NextAnalytics]_vars

InitScreen ==
    /\ RetryInit
    /\ FetchInit
    /\ apiRev \in {"silent", "throwing"}
    /\ ScreenInit
    /\ gesture = NoGesture
    /\ UrlIdle
    /\ UploadIdle
    /\ AnalyticsInit
    /\ SectionsIdle
    /\ ViewerIdle
    /\ AppIdle
    /\ NotProcessed
    /\ NoFetchSettled
    /\ OneFetchAtATime

\* a step of the screen in which no delete call of a running handler settles
Other == lastDelete' = NoSettle /\ UNCHANGED <<retryVars, apiRev, fetchVars, gesture, urlVars, callVars>>

NextScreen ==
    \/ Mount /\ Other
    \/ Refresh /\ Other
    \/ ServerAnswerFetch /\ Other
    \/ \E f \in InFlight : \E o \in SettleErrors : loadHistorySettle(f, o) /\ Other
    \/ \E f \in InFlight : \E o \in SettleMalformed : loadHistorySettle(f, o) /\ Other
    \/ \E f \in InFlight : \E o \in SettleArrays(f) : loadHistorySettle(f, o) /\ Other
    \/ DismissAlert /\ Other
    \/ \E id \in Ids : handleLongPress(id) /\ Other
    \/ \E id \in Ids : handleImagePress(id) /\ Other
    \/ cancelSelection /\ Other
    \/ \E d \in {DateOf(id) : id \in Ids} : handleSelectAllInDate(d) /\ Other
    \/ closeViewer /\ Other
    \/ \E i \in 1..MaxIds : onMomentumScrollEnd(i) /\ Other
    \/ handleDeleteEntry /\ Other
    \/ handleBatchDelete /\ Other
    \/ \E id \in Ids : \E o \in OrphanOutcomes : OrphanSettle(id, o) /\ Other
    \/ \E id \in Ids : \E o \in DeleteOutcomes :
           DeleteSettle(id, o) /\ UNCHANGED <<retryVars, apiRev, fetchVars, gesture, urlVars, callVars>>

SpecScreen == InitScreen /\ [][NextScreen]_vars

\* every network call eventually resolves or rejects (each has a timeout): the
\* outstanding fetch and the outstanding delete calls settle
FetchSettles ==
    \E f \in InFlight : \E o \in SettleErrors \cup SettleMalformed \cup SettleArrays(f) :
        loadHistorySettle(f, o) /\ Other
DeleteCallSettles ==
    \E id \in Ids : \E o \in DeleteOutcomes :
        DeleteSettle(id, o) /\ UNCHANGED <<retryVars, apiRev, fetchVars, gesture, urlVars, callVars>>

SpecScreenLive == SpecScreen /\ WF_vars(FetchSettles) /\ WF_vars(DeleteCallSettles)

\* the collection screen over a backend of MaxSelIds entries on several days:
\* load, then select
SelIds == 1..MaxSelIds
SelServer == [i \in 1..MaxSelIds |-> MaxSelIds + 1 - i]

InitSelect ==
    /\ RetryInit
    /\ FetchInit
    /\ apiRev \in {"silent", "throwing"}
    /\ screen \in {"history", "autoDataset"}
    /\ mounted = FALSE
    /\ entries = <<>>
    /\ loading = FALSE
    /\ selectedEntry = Null
    /\ isDeleting = FALSE
    /\ selectedIds = {}
    /\ isSelectionMode = FALSE
    /\ alerts = <<>>
    /\ fetches = EmptyBag
    /\ delOp = NoDelete
    /\ orphans = {}
    /\ lastDelete = NoSettle
    /\ server = SelServer
    /\ gesture = NoGesture
    /\ UrlIdle
    /\ UploadIdle
    /\ AnalyticsInit
    /\ SectionsIdle
    /\ ViewerIdle
    /\ AppIdle
    /\ NotProcessed
    /\ NoFetchSettled
    /\ OneFetchAtATime

\* the variables no step of the selection touches
Aside == lastDelete' = NoSettle /\ UNCHANGED <<retryVars, apiRev, fetchVars, urlVars, callVars>>
\* a step that is no tap and no select-all
NoTap == gesture' = NoGesture /\ Aside

NextSelect ==
    \/ Mount /\ NoTap
    \/ ServerAnswerFetch /\ NoTap
    \/ \E f \in InFlight : \E o \in SettleArrays(f) : loadHistorySettle(f, o) /\ NoTap
    \/ \E id \in SelIds : handleLongPress(id) /\ NoTap
    \/ \E id \in SelIds :
           /\ handleImagePress(id)
           /\ Gesture(IF isSelectionMode THEN "tap" ELSE "open", id)
           /\ Aside
    \/ \E d \in {DateOf(id) : id \in SelIds} :
           /\ handleSelectAllInDate(d)
           /\ Gesture("selectAll", d)
           /\ Aside
    \/ cancelSelection /\ NoTap
    \/ closeViewer /\ NoTap

SpecSelect == InitSelect /\ [][NextSelect]_vars

\* the app from its start: the screens themselves are left out, the Alert
\* dialogs are the app's
InitApp ==
    /\ RetryInit
    /\ FetchInit
    /\ apiRev = "silent"
    /\ ScreenIdle
    /\ UrlIdle
    /\ UploadIdle
    /\ AnalyticsInit
    /\ SectionsIdle
    /\ ViewerIdle
    /\ NotProcessed
    /\ NoFetchSettled
    /\ OneFetchAtATime
    /\ AppInit

\* the variables no step of the app touches
OffStage ==
    UNCHANGED <<retryVars, apiRev, fetchVars, gesture, urlVars, uploadVars, analyticsVars,
                sectionVars, viewerVars, loadVars, refreshVars, backendVars, screen,
                mounted, entries, loading,
                selectedEntry, isDeleting, selectedIds, isSelectionMode, fetches,
                delOp, orphans, lastDelete, server>>

NextApp ==
    \/ \E target \in Screens : homeNavigate(target) /\ OffStage
    \/ onOpenSettings /\ OffStage
    \/ onToggleAutoSaveDataset /\ OffStage
    \/ onClose /\ OffStage
    \/ backHome /\ OffStage
    \/ \E found \in BOOLEAN : loadLatestHistorySettle(found) /\ OffStage
    \/ handleTakePicture /\ OffStage
    \/ \E uri \in Images \cup {Null} : takePictureSettle(uri) /\ OffStage
    \/ handleAnalyzeFish /\ OffStage
    \/ \E call \in BagToSet(analyses) : \E outcome \in AnalyzeOutcomes :
           analyzeSettle(call, outcome) /\ OffStage
    \/ \E home \in BOOLEAN : handleReset(home) /\ OffStage
    \/ handleViewHistoryImage /\ OffStage
    \/ appDismissAlert /\ OffStage

SpecApp == InitApp /\ [][NextApp]_vars

\* withRetry against a backend that counts how often it processes the image
InitIdem ==
    /\ InitRetry

OnlyAttemptVars ==
    UNCHANGED <<apiRev, fetchVars, screenVars, gesture, urlVars, uploadVars, analyticsVars,
                sectionVars, viewerVars, loadVars, appVars, refreshVars>>

NextIdem ==
    \/ withRetry /\ UNCHANGED processed /\ OnlyAttemptVars
    \/ \E o \in Outcomes : \E p \in ProcessedBy(o) :
           /\ Attempt(o)
           /\ processed' = processed + (IF p THEN 1 ELSE 0)
           /\ OnlyAttemptVars
    \/ DelayElapsed /\ UNCHANGED processed /\ OnlyAttemptVars

SpecIdem == InitIdem /\ [][NextIdem]_vars

\* the collection screen with each settled fetch recorded: load, refresh, look
InitRefresh ==
    /\ InitScreen

\* the variables no step of the screen touches
Beside ==
    /\ lastDelete' = NoSettle
    /\ UNCHANGED <<retryVars, apiRev, fetchVars, gesture, urlVars, uploadVars, analyticsVars,
                   sectionVars, viewerVars, loadVars, appVars, backendVars>>
NoneSettled == lastFetch' = NoFetchSettle /\ Beside
Settled(o) == lastFetch' = [kind |-> o.kind, before |-> entries] /\ Beside

NextRefresh ==
    \/ Mount /\ NoneSettled
    \/ Refresh /\ NoneSettled
    \/ ServerAnswerFetch /\ NoneSettled
    \/ \E f \in InFlight : \E o \in SettleErrors : loadHistorySettle(f, o) /\ Settled(o)
    \/ \E f \in InFlight : \E o \in SettleMalformed : loadHistorySettle(f, o) /\ Settled(o)
    \/ \E f \in InFlight : \E o \in SettleArrays(f) : loadHistorySettle(f, o) /\ Settled(o)
    \/ DismissAlert /\ NoneSettled
    \/ \E id \in Ids : handleLongPress(id) /\ NoneSettled
    \/ \E id \in Ids : handleImagePress(id) /\ NoneSettled
    \/ cancelSelection /\ NoneSettled
    \/ closeViewer /\ NoneSettled

SpecRefresh == InitRefresh /\ [][NextRefresh]_vars

\* the collection screen when its fetches may overlap: the fetch of the mount
\* effect, pull-to-refresh and the refresh buttons
InitOverlap ==
    /\ RetryInit
    /\ FetchInit
    /\ apiRev \in {"silent", "throwing"}
    /\ ScreenInit
    /\ gesture = NoGesture
    /\ UrlIdle
    /\ UploadIdle
    /\ AnalyticsInit
    /\ SectionsIdle
    /\ ViewerIdle
    /\ AppIdle
    /\ NotProcessed
    /\ NoFetchSettled
    /\ fetchCap = MaxOverlap

NextOverlap ==
    \/ Mount /\ Other
    \/ Refresh /\ Other
    \/ ServerAnswerFetch /\ Other
    \/ \E f \in InFlight : \E o \in SettleErrors : loadHistorySettle(f, o) /\ Other
    \/ \E f \in InFlight : \E o \in SettleMalformed : loadHistorySettle(f, o) /\ Other
    \/ \E f \in InFlight : \E o \in SettleArrays(f) : loadHistorySettle(f, o) /\ Other
    \/ DismissAlert /\ Other
    \/ \E id \in Ids : handleImagePress(id) /\ Other
    \/ closeViewer /\ Other

SpecOverlap == InitOverlap /\ [][NextOverlap]_vars

\* the collection screen over a backend of MaxViewIds entries: load, open the
\* viewer, page through it, delete from it, refresh.  page = NoFlatList is the
\* HistoryScreen revision with navigateToImage, page = 0 the revisions with the
\* FlatList (HistoryScreen, AutoDatasetScreen)
ViewIds == 1..MaxViewIds
ViewServer == [i \in 1..MaxViewIds |-> MaxViewIds + 1 - i]

InitViewer ==
    /\ RetryInit
    /\ FetchInit
    /\ apiRev = "silent"
    /\ page \in {NoFlatList, 0}
    /\ nav = NoNav
    /\ screen \in (IF page = NoFlatList THEN {"history"} ELSE {"history", "autoDataset"})
    /\ mounted = FALSE
    /\ entries = <<>>
    /\ loading = FALSE
    /\ selectedEntry \in (IF screen = "history" /\ page # NoFlatList
                          THEN {Null, ViewServer[1]} ELSE {Null})
    /\ isDeleting = FALSE
    /\ selectedIds = {}
    /\ isSelectionMode = FALSE
    /\ alerts = <<>>
    /\ fetches = EmptyBag
    /\ delOp = NoDelete
    /\ orphans = {}
    /\ lastDelete = NoSettle
    /\ server = ViewServer
    /\ gesture = NoGesture
    /\ UrlIdle
    /\ UploadIdle
    /\ AnalyticsInit
    /\ SectionsIdle
    /\ AppIdle
    /\ NotProcessed
    /\ NoFetchSettled
    /\ OneFetchAtATime

\* the variables no step of the viewer touches
Backstage ==
    UNCHANGED <<retryVars, apiRev, fetchVars, gesture, urlVars, uploadVars,
                analyticsVars, sectionVars, loadVars, appVars, refreshVars, backendVars>>
\* a step that is no navigation and moves no FlatList
NoSwipe == nav' = NoNav /\ page' = page /\ lastDelete' = NoSettle /\ Backstage
\* the FlatList is mounted at index, if this revision has one
FlatListAt(index) == page' = (IF page = NoFlatList THEN NoFlatList ELSE index)

NextViewer ==
    \/ Mount /\ NoSwipe
    \/ Refresh /\ NoSwipe
    \/ ServerAnswerFetch /\ NoSwipe
    \/ \E f \in InFlight : \E o \in SettleArrays(f) :
           /\ loadHistorySettle(f, o)
           /\ FlatListAt(IF ViewerShown THEN PageAfterData(o.value) ELSE 0)
           /\ nav' = NoNav /\ lastDelete' = NoSettle /\ Backstage
    \/ DismissAlert /\ NoSwipe
    \/ \E id \in ViewIds :
           /\ handleImagePress(id)
           /\ FlatListAt(InitialScrollIndex(entries, id))
           /\ nav' = NoNav /\ lastDelete' = NoSettle /\ Backstage
    \/ closeViewer /\ FlatListAt(0) /\ nav' = NoNav /\ lastDelete' = NoSettle /\ Backstage
    \/ \E direction \in Directions :
           navigateToImage(direction) /\ lastDelete' = NoSettle /\ Backstage
    \/ \E direction \in Directions :
           swipeFlatList(direction) /\ lastDelete' = NoSettle /\ Backstage
    \/ handleDeleteEntry /\ NoSwipe
    \/ \E id \in ViewIds : \E o \in DeleteOutcomes :
           /\ DeleteSettle(id, o)
           /\ FlatListAt(IF o = "ok" THEN 0 ELSE page)
           /\ nav' = NoNav /\ Backstage

SpecViewer == InitViewer /\ [][NextViewer]_vars

\* ------------------------------------------------------------------------
\* Properties of withRetry (SpecRetry)
\* ------------------------------------------------------------------------
\* the failures the specification calls transient
TransientFailures == {ErrNetwork, ErrAborted, ErrMsgNetwork, ErrMsgTimeout}
FailedTransiently(o) == ~o.ok /\ o.value \in TransientFailures
FailedOtherwise(o) == ~o.ok /\ o.value \notin TransientFailures

\* C4: k transient failures (k = 0, 1, 2) followed by a success resolve the call
\* with that success after exactly k + 1 attempts; until then the call goes on.
C4_RetryThenSucceed ==
    \A k \in 0..(Retries - 1) :
        (Len(rLog) >= k /\ \A j \in 1..k : FailedTransiently(rLog[j])) =>
            /\ (Len(rLog) = k => rPc # "done")
            /\ (Len(rLog) > k /\ rLog[k + 1].ok) =>
                   /\ Len(rLog) = k + 1
                   /\ rPc = "done"
                   /\ rResult.kind = "return"
                   /\ rResult.value = rLog[k + 1].value

C4_Witness ==
    /\ Len(rLog) = 3
    /\ FailedTransiently(rLog[1]) /\ FailedTransiently(rLog[2])
    /\ rLog[3].ok
    /\ rResult.kind = "return"

\* C5: a failure that is not transient is rethrown at once: it is the last
\* attempt, and the call ends by throwing that very error.
C5_NoRetryOnOtherFailure ==
    \A j \in 1..Len(rLog) :
        FailedOtherwise(rLog[j]) =>
            /\ j = Len(rLog)
            /\ rPc = "done"
            /\ rResult.kind = "throw"
            /\ rResult.value = rLog[j].value

C5_Witness ==
    /\ rLog = <<[ok |-> FALSE, value |-> Err4xx]>>
    /\ rPc = "done"
    /\ rResult.kind = "throw"

\* C6: never more than 3 attempts; delays only between attempts; three
\* transient failures end the call after exactly 2 delays, throwing the last error.
C6_BoundedAttempts ==
    /\ Len(rLog) <= 3
    /\ rDelays <= 2
    /\ (Len(rLog) = 3 => rPc = "done")
    /\ (rPc = "done" => rDelays = Len(rLog) - 1)
    /\ (Len(rLog) = 3 /\ \A j \in 1..3 : FailedTransiently(rLog[j])) =>
           /\ rDelays = 2
           /\ rResult.kind = "throw"
           /\ rResult.value = rLog[3].value

C6_Witness ==
    /\ Len(rLog) = 3
    /\ \A j \in 1..3 : FailedTransiently(rLog[j])
    /\ rPc = "done"
    /\ rDelays = 2

\* ------------------------------------------------------------------------
\* Properties of analyzeFish (SpecAnalyze)
\* ------------------------------------------------------------------------
\* the error of the last request made
FinalError == rLog[Len(rLog)].value
RequestFailed == rPc = "done" /\ rResult.kind = "throw"
IsTimeout(e) == e.code = "ECONNABORTED" \/ MessageIncludes(e, <<"timeout">>)
IsUnreachable(e) == e.code = "ERR_NETWORK" \/ MessageIncludes(e, <<"Network", "Error">>)

\* C15: once analyzeFish has settled after a failure it has thrown, never
\* returned: the timeout message if the final error is a timeout, otherwise
\* the cannot-connect message if it is a network error, otherwise the error's
\* own message or the fallback; a failure of the image conversion is thrown
\* with its own message.
C15_AnalyzeErrorCategories ==
    aResult.kind # "pending" =>
        /\ RequestFailed =>
              /\ aResult.kind = "throw"
              /\ IsTimeout(FinalError) => aResult.value = TimedOutMessage
              /\ (~IsTimeout(FinalError) /\ IsUnreachable(FinalError)) =>
                     aResult.value = CannotConnectMessage
              /\ (~IsTimeout(FinalError) /\ ~IsUnreachable(FinalError)) =>
                     /\ aResult.value \notin {TimedOutMessage, CannotConnectMessage}
                     /\ aResult.value =
                           (IF FinalError.message \in {NoMessage, <<>>}
                            THEN FailedToAnalyze ELSE FinalError.message)
        /\ aResult.reader \in {"load_other", "error"} => aResult.kind = "throw"
        /\ aResult.kind = "return" =>
              /\ rResult.kind = "return" /\ rLog[Len(rLog)].ok
              /\ aResult.reader = "load_string"

\* three timeouts in a row have reached the caller as the timeout message
C15_Witness ==
    /\ aResult.kind = "throw" /\ aResult.reader = "none"
    /\ aResult.value = TimedOutMessage
    /\ Len(rLog) = 3
    /\ ~rLog[3].ok
    /\ FinalError = ErrAborted

\* ------------------------------------------------------------------------
\* Properties of the collection screen (SpecScreen)
\* ------------------------------------------------------------------------
FetchOutstanding == fetches # EmptyBag
BatchStarts == delOp.kind = "none" /\ delOp'.kind = "batch"
SingleStarts == delOp.kind = "none" /\ delOp'.kind = "single"
\* a delete call of the running handler settles in this step
BatchCallSettles == delOp.kind = "batch" /\ delOp' # delOp
SingleCallSettles == delOp.kind = "single" /\ delOp' # delOp
LastCallOfBatch == Cardinality(delOp.ids \ delOp.ok) = 1
FailureAlertOnTop == alerts # <<>> /\ alerts[Len(alerts)] = "Delete Failed"

\* C1: a confirmed batch delete issues one call per selected id; the ids are
\* removed locally and the selection is cleared exactly when every call has
\* succeeded; a rejection leaves entries and selectedIds as they were and
\* raises one "Delete Failed" alert.
C1_BatchAllOrNothing ==
    [][ /\ BatchStarts =>
              /\ delOp'.ids = selectedIds /\ delOp'.ok = {}
              /\ entries' = entries /\ selectedIds' = selectedIds
        /\ BatchCallSettles =>
              /\ (lastDelete'.outcome = "ok" /\ LastCallOfBatch) =>
                     /\ Range(entries') = Range(entries) \ delOp.ids
                     /\ selectedIds' = {} /\ ~isSelectionMode'
                     /\ alerts' = alerts
                     /\ ~isDeleting'
              /\ (lastDelete'.outcome = "ok" /\ ~LastCallOfBatch) =>
                     /\ entries' = entries /\ selectedIds' = selectedIds
                     /\ isSelectionMode' = isSelectionMode
                     /\ alerts' = alerts
                     /\ isDeleting'
              /\ lastDelete'.outcome = "rejected" =>
                     /\ entries' = entries /\ selectedIds' = selectedIds
                     /\ isSelectionMode' = isSelectionMode
                     /\ alerts' = Append(alerts, "Delete Failed")
                     /\ ~isDeleting'
      ]_vars

\* a batch of two has failed after one of its calls had succeeded on the backend
C1_Witness ==
    /\ lastDelete = [kind |-> "batch", outcome |-> "rejected"]
    /\ FailureAlertOnTop
    /\ Cardinality(selectedIds) = 2
    /\ selectedIds \subseteq Range(entries)
    /\ \E id \in selectedIds : id \notin Range(server)

\* C2: a failed single delete changes nothing locally (entries, selectedEntry,
\* selectedIds) and raises "Delete Failed"; starting the delete changes no
\* entries, and while it is pending entries change only by a fetch settling.
C2_SingleFailureKeepsState ==
    [][ /\ SingleStarts =>
              /\ entries' = entries /\ selectedEntry' = selectedEntry
              /\ selectedIds' = selectedIds
        /\ (SingleCallSettles /\ lastDelete'.outcome = "rejected") =>
              /\ entries' = entries /\ selectedEntry' = selectedEntry
              /\ selectedIds' = selectedIds
              /\ alerts' = Append(alerts, "Delete Failed")
        /\ (delOp.kind = "single" /\ delOp' = delOp /\ entries' # entries) =>
              fetches' # fetches
      ]_vars

\* the viewer still shows the entry whose delete has just failed
C2_Witness ==
    /\ lastDelete = [kind |-> "single", outcome |-> "rejected"]
    /\ FailureAlertOnTop
    /\ selectedEntry # Null
    /\ selectedEntry \in Range(entries)
    /\ ~isDeleting

\* s without its i-th element
RemoveAt(s, i) == SubSeq(s, 1, i - 1) \o SubSeq(s, i + 1, Len(s))

C7_ModeIffSelection == isSelectionMode <=> (selectedIds # {})

\* a successful batch delete has just emptied the selection and left the mode
C7_Witness ==
    /\ lastDelete = [kind |-> "batch", outcome |-> "ok"]
    /\ ~isSelectionMode
    /\ selectedIds = {}
    /\ entries # <<>>

\* C8: no collection fetch is in flight while a delete is in progress.
C8_DeleteNeverRacesFetch == ~(isDeleting /\ FetchOutstanding)

\* C9: once a failed delete has been handled, either the collection is being
\* fetched again or the local entries hold no id the backend has deleted.
C9_RefetchAfterFailedDelete ==
    FailureAlertOnTop =>
        (FetchOutstanding \/ Range(entries) \subseteq Range(server))

\* ------------------------------------------------------------------------
\* Properties of a failed refresh (SpecRefresh)
\* ------------------------------------------------------------------------
\* C29: when loadHistory completes with a failed fetch (transport error or
\* timeout) the entries are what they were.
C29_FailedRefreshKeepsEntries ==
    lastFetch.kind = "error" => entries = lastFetch.before

\* ------------------------------------------------------------------------
\* Properties of the backend's work for one analyzeFish call (SpecIdem)
\* ------------------------------------------------------------------------
\* C30: one call of analyzeFish makes the backend process the image at most once.
C30_ProcessedAtMostOnce == processed <= 1

\* ------------------------------------------------------------------------
\* Properties of the app (SpecApp)
\* ------------------------------------------------------------------------
\* C22: the auto-dataset screen is only ever shown while the auto-save toggle is on.
C22_AutoDatasetGated == currentScreen = "autoDataset" => autoSaveDataset

\* the auto-dataset screen is open after the toggle was switched on in the settings
C22_Witness == currentScreen = "autoDataset" /\ autoSaveDataset /\ ~showSettings

\* C28: an analysis result is shown only for an image that is still captured.
C28_ResultOnlyForCapturedImage == analysisResult # Null => capturedImage # Null

\* ------------------------------------------------------------------------
\* Properties of overlapping fetches (SpecOverlap)
\* ------------------------------------------------------------------------
\* C21: while a collection fetch of the screen is outstanding, loading is true.
C21_LoadingWhileFetching == FetchOutstanding => loading

\* C25: every selected id is the id of an entry in the local entries.
C25_SelectionWithinEntries == selectedIds \subseteq Range(entries)

\* C26: while isDeleting is false no delete request of the screen is outstanding.
C26_NoDeleteOutstandingWhenIdle == ~isDeleting => (delOp = NoDelete /\ orphans = {})

\* C27: an id that is gone both from the backend and from the local entries
\* does not come back into the entries.
C27_DeletedStaysGone ==
    [][ \A X \in Ids :
            (X \notin Range(server) /\ X \notin Range(entries)) => X \notin Range(entries')
      ]_vars

\* C24: busy states end: loading leads to not loading, isDeleting to not
\* isDeleting, whether the calls succeed or fail.
C24_BusyStatesEnd == (loading ~> ~loading) /\ (isDeleting ~> ~isDeleting)

\* a delete has just failed with no fetch outstanding: nothing is busy
C24_Witness ==
    /\ lastDelete.outcome = "rejected"
    /\ FailureAlertOnTop
    /\ ~isDeleting
    /\ ~loading
    /\ mounted
    /\ fetches = EmptyBag

\* ------------------------------------------------------------------------
\* Properties of the selection (SpecSelect)
\* ------------------------------------------------------------------------
\* the ids of the date section the last select-all was applied to
GestureBucket == Bucket(gesture.arg)
SelectAllTwice == gesture.op = "selectAll" /\ gesture.n = 2
SomeButNotAll(sel, bucket) == sel \cap bucket # {} /\ ~(bucket \subseteq sel)

\* C11 as stated: select-all applied twice in a row to one date section leaves
\* each id of the section selected exactly if it was selected before, whatever
\* part of the section was selected.
C11_SelectAllTwiceRestores ==
    SelectAllTwice =>
        selectedIds \cap GestureBucket = gesture.before \cap GestureBucket

\* C11 amended: select-all applied twice in a row to one date section never
\* changes the selection outside the section; it restores the section's
\* selection when none or all of its ids were selected, and leaves none of
\* them selected when only some were.
C11_SelectAllTwice ==
    SelectAllTwice =>
        /\ selectedIds \ GestureBucket = gesture.before \ GestureBucket
        /\ selectedIds \cap GestureBucket =
              (IF SomeButNotAll(gesture.before, GestureBucket)
               THEN {} ELSE gesture.before \cap GestureBucket)

\* twice applied to a fully selected section, another section keeping the mode on
C11_Witness ==
    /\ SelectAllTwice
    /\ Cardinality(GestureBucket) = 2
    /\ GestureBucket \subseteq gesture.before
    /\ gesture.before # GestureBucket
    /\ selectedIds = gesture.before

\* the last step was a select-all on the section GestureBucket, made with
\* gesture.mid selected
SelectAllMade == gesture.op = "selectAll"

\* C23: select-all on a date section removes exactly the section's ids when all
\* of them were selected and adds exactly the missing ones otherwise; no id
\* outside the section changes, and selection mode is left only with an empty
\* selection.
C23_SelectAllFrame ==
    SelectAllMade =>
        /\ GestureBucket \subseteq gesture.mid => selectedIds = gesture.mid \ GestureBucket
        /\ ~(GestureBucket \subseteq gesture.mid) => selectedIds = gesture.mid \cup GestureBucket
        /\ selectedIds \ GestureBucket = gesture.mid \ GestureBucket
        /\ ~isSelectionMode => selectedIds = {}

\* a fully selected section has been deselected while an id of another section
\* stays selected
C23_Witness ==
    /\ SelectAllMade
    /\ Cardinality(GestureBucket) = 2
    /\ GestureBucket \subseteq gesture.mid
    /\ selectedIds = gesture.mid \ GestureBucket
    /\ selectedIds # {}
    /\ isSelectionMode

\* C12: in selection mode, a tap on an unselected entry followed by a tap on
\* the same entry gives back exactly the selection there was, the mode still
\* on; a tap on the only selected entry empties the selection and leaves the mode.
C12_TapTwiceRestores ==
    /\ (gesture.op = "tap" /\ gesture.n = 2 /\ gesture.arg \notin gesture.before) =>
           /\ selectedIds = gesture.before
           /\ isSelectionMode
    /\ (gesture.op = "tap" /\ gesture.mid = {gesture.arg}) =>
           /\ selectedIds = {}
           /\ ~isSelectionMode

\* an entry was added to a selection of two and taken out again
C12_Witness ==
    /\ gesture.op = "tap" /\ gesture.n = 2
    /\ gesture.arg \notin gesture.before
    /\ Cardinality(gesture.before) = 2
    /\ selectedIds = gesture.before
    /\ isSelectionMode

\* ------------------------------------------------------------------------
\* Properties of the server URLs (SpecUrl)
\* ------------------------------------------------------------------------
EndsWithSlash(u) == u # <<>> /\ u[Len(u)] = "/"

\* C13: normalizing a URL that is already normalized changes nothing, and a
\* normalized URL never ends with a slash.
C13_NormalizeIdempotent ==
    /\ \A i \in 1..Len(urlNorm) : ~EndsWithSlash(urlNorm[i])
    /\ Len(urlNorm) = 2 => urlNorm[2] = urlNorm[1]

\* C14: a base URL without a trailing slash and the same URL followed by a
\* slash give the same URL for every endpoint.
C14_TrailingSlashSameEndpoints ==
    (urlEndpoints.rev # "none" /\ ~EndsWithSlash(urlIn)) =>
        urlEndpoints.slashed = urlEndpoints.bare

\* ------------------------------------------------------------------------
\* Properties of uploadDataset (SpecUpload)
\* ------------------------------------------------------------------------
UploadSettled == upOut.kind # "pending"
GotStatus(status) == upIn.ok /\ upIn.value.status = status

\* C16: uploadDataset posts once and returns, never throws; it reports success
\* exactly for a response of status "success"; status "error" gives a failure
\* with the backend's message; any other response gives the failure
\* "Unexpected response from server"; a transport error gives a failure too.
C16_UploadSinglePostNeverThrows ==
    /\ upPosts <= 1
    /\ UploadSettled =>
          /\ upOut.kind = "return"
          /\ upOut.success <=> GotStatus(<<"success">>)
          /\ GotStatus(<<"error">>) =>
                upOut.error = OrElse(upIn.value.message, <<"Unknown error occurred">>)
          /\ (upIn.ok /\ ~GotStatus(<<"success">>) /\ ~GotStatus(<<"error">>)) =>
                upOut.error = <<"Unexpected response from server">>
          /\ ~upIn.ok => ~upOut.success

\* ------------------------------------------------------------------------
\* Properties of fetchAnalytics (SpecAnalytics)
\* ------------------------------------------------------------------------
GotSummary == anIn.ok /\ anIn.value.shape = "summary"
IsZeroSummary(a) ==
    /\ a.shape = "summary"
    /\ a.total_scans = 0 /\ a.daing_scans = 0 /\ a.non_daing_scans = 0
    /\ a.fish_type_distribution = {} /\ a.average_confidence = {} /\ a.daily_scans = {}

\* C17: fetchAnalytics returns, never throws; unless the backend has sent a
\* summary, what it returns is a summary with counts 0 and empty maps; the
\* screen shows its spinner, its charts or its empty state, and never fails.
C17_AnalyticsNeverFails ==
    /\ anOut.kind # "pending" =>
          /\ anOut.kind = "return"
          /\ GotSummary => anOut.value = anIn.value
          /\ ~GotSummary => IsZeroSummary(anOut.value)
    /\ AnalyticsView \in {"loading", "data", "empty"}

\* ------------------------------------------------------------------------
\* Properties of the date sections (SpecSections)
\* ------------------------------------------------------------------------
RECURSIVE Flatten(_)
Flatten(seqs) == IF seqs = <<>> THEN <<>> ELSE Head(seqs) \o Flatten(Tail(seqs))

RECURSIVE KeepKey(_, _, _)
\* the entries of a list whose date key is key, in the list's order
KeepKey(items, tz, key) ==
    IF items = <<>> THEN <<>>
    ELSE IF DateKey(Head(items).timestamp, tz) = key
         THEN <<Head(items)>> \o KeepKey(Tail(items), tz, key)
         ELSE KeepKey(Tail(items), tz, key)

SectionList == sections.list
\* the local day an entry falls on
LocalDayOf(entry) == LocalDayNumber(DateParse(entry.timestamp, tzOffset), tzOffset)

\* C18: the sections partition the entries and none is empty; they come in
\* strictly descending order of date key, newest day first; the rows of a
\* section hold its entries in the order received; every row has 3 cells, and
\* spacers come only after the entries of a section's last row.
C18_SectionsPartitionAndRows ==
    sections.done =>
        /\ \A e \in Range(secEntries) :
               Cardinality({i \in 1..Len(SectionList) :
                               e \in Range(Flatten(SectionList[i].rows))}) = 1
        /\ Len(Flatten([i \in 1..Len(SectionList) |-> Flatten(SectionList[i].rows)]))
               = Len(secEntries)
        /\ \A i \in 1..Len(SectionList) :
               /\ SectionList[i].rows # <<>>
               /\ Flatten(SectionList[i].rows)
                     = KeepKey(secEntries, tzOffset, SectionList[i].isoDate)
               /\ \A r \in 1..Len(SectionList[i].rows) :
                      LET row == SectionList[i].rows[r]
                          cells == SectionList[i].cells[r]
                      IN /\ Len(cells) = 3
                         /\ Len(row) >= 1
                         /\ r < Len(SectionList[i].rows) => Len(row) = 3
                         /\ \A c \in 1..3 :
                                IF c <= Len(row) THEN cells[c] = row[c].id
                                ELSE cells[c] = Spacer
        /\ \A i, j \in 1..Len(SectionList) :
               i < j =>
                   /\ StringGreater(SectionList[i].isoDate, SectionList[j].isoDate)
                   /\ \A a \in Range(Flatten(SectionList[i].rows)),
                         b \in Range(Flatten(SectionList[j].rows)) :
                          LocalDayOf(a) > LocalDayOf(b)

\* two sections, the newer one first with a full row and a row of one entry
\* and two spacers
C18_Witness ==
    /\ sections.done
    /\ Len(SectionList) = 2
    /\ Len(SectionList[1].rows) = 2
    /\ SectionList[1].cells[2][2] = Spacer /\ SectionList[1].cells[2][3] = Spacer
    /\ secEntries[1].id \in Range(SectionList[2].cells[1])

\* "2024-01-15"
Key_2024_01_15 == <<50, 48, 50, 52, 45, 48, 49, 45, 49, 53>>
UtcMinus5 == -(5 * 60)

\* the section an entry is shown in
SectionOf(e) ==
    CHOOSE i \in 1..Len(SectionList) : e \in Range(Flatten(SectionList[i].rows))

SameBucket_2024_01_15(a, b) ==
    /\ SectionOf(a) = SectionOf(b)
    /\ SectionList[SectionOf(a)].isoDate = Key_2024_01_15

\* two entries share a section exactly if they fall on the same local day
BucketedByLocalDay ==
    \A a, b \in Range(secEntries) :
        (SectionOf(a) = SectionOf(b)) <=> (LocalDayOf(a) = LocalDayOf(b))

\* C19 as stated: entries are bucketed by local calendar day, and on a device
\* in UTC-5 the entries stamped 2024-01-15T23:50:00 and 2024-01-16T00:10:00
\* share the bucket 2024-01-15.
C19_LocalDateBucketing ==
    sections.done =>
        /\ BucketedByLocalDay
        /\ tzOffset = UtcMinus5 =>
              \A a, b \in Range(secEntries) :
                  (/\ a.timestamp = Stamp(2024, 1, 15, 23, 50, "")
                   /\ b.timestamp = Stamp(2024, 1, 16, 0, 10, "")) =>
                      SameBucket_2024_01_15(a, b)

\* C19 amended: entries are bucketed by local calendar day, and on a device in
\* UTC-5 the entries stamped 2024-01-15T23:50:00Z and 2024-01-16T00:10:00Z
\* (UTC) share the bucket 2024-01-15; stamped without the Z they are read as
\* local times and fall into two buckets.
C19_LocalDateBucketingUtcStamps ==
    sections.done =>
        /\ BucketedByLocalDay
        /\ tzOffset = UtcMinus5 =>
              \A a, b \in Range(secEntries) :
                  /\ (/\ a.timestamp = Stamp(2024, 1, 15, 23, 50, "Z")
                      /\ b.timestamp = Stamp(2024, 1, 16, 0, 10, "Z")) =>
                         SameBucket_2024_01_15(a, b)
                  /\ (/\ a.timestamp = Stamp(2024, 1, 15, 23, 50, "")
                      /\ b.timestamp = Stamp(2024, 1, 16, 0, 10, "")) =>
                         SectionOf(a) # SectionOf(b)

\* the two UTC stamps rendered in one section on a device in UTC-5
C19_Witness ==
    /\ sections.done
    /\ tzOffset = UtcMinus5
    /\ Len(secEntries) = 2
    /\ secEntries[1].timestamp = Stamp(2024, 1, 15, 23, 50, "Z")
    /\ secEntries[2].timestamp = Stamp(2024, 1, 16, 0, 10, "Z")
    /\ Len(SectionList) = 1
    /\ SectionList[1].isoDate = Key_2024_01_15

\* ------------------------------------------------------------------------
\* Properties of the full-screen viewer (SpecViewer)
\* ------------------------------------------------------------------------
Min(a, b) == IF a < b THEN a ELSE b
Max(a, b) == IF a > b THEN a ELSE b
\* the last step paged from an entry that was in the list, at index nav.from
Navigated(direction) == nav.dir = direction /\ nav.from >= 0

\* C20: paging from the viewed entry at index i of n entries shows the entry
\* at index min(i + 1, n - 1) for "next" and at max(i - 1, 0) for "prev".
C20_NavigationClamped ==
    /\ Navigated("next") => getCurrentIndex = Min(nav.from + 1, nav.n - 1)
    /\ Navigated("prev") => getCurrentIndex = Max(nav.from - 1, 0)

\* ------------------------------------------------------------------------
\* Properties of fetchHistory (SpecFetch)
\* ------------------------------------------------------------------------
\* C10: fetchHistory never throws: an array of entries is returned unchanged,
\* every failure and every malformed payload gives the empty list.
C10_FetchNeverThrows ==
    fIn.kind # "none" =>
        /\ fOut.kind = "return"
        /\ (fIn.kind = "array" => fOut.value = fIn.value)
        /\ (fIn.kind # "array" => fOut.value = <<>>)

====
